---- MODULE Spec2Model ----
(***************************************************************************)
(* State-machine model of the AthenasRepo backend: the relational store    *)
(* (users, elections, candidates, votes), the request handlers that work   *)
(* on it inside session_scope (login, create_election, record_vote,        *)
(* get_election_results), the process-wide ledger result cache and the     *)
(* ledger service singleton.  Every worker runs one request at a time; the *)
(* steps of a request are its statements that touch shared state.          *)
(***************************************************************************)
EXTENDS Integers, Sequences, FiniteSets, TLC

\* ------------------------------------------------------------------ bounds
NumWorkers == 2
MaxCalls == 2
MaxElections == 2
MaxTime == 2
MaxChainCount == 2

Workers == 1..NumWorkers

\* CHAIN_CACHE_TTL as configured in the environment (seconds)
CACHE_TTL_SECONDS == 1

\* ------------------------------------------------------------ input domains
\* Wallet address strings, as sequences of characters so that str.lower()
\* is computed and not assumed.
Wallets == { <<"0", "x", "a">>, <<"0", "x", "A">> }
NoWallet == << >>

\* str.lower() on one character / on a string
LowerChar(c) == IF c = "A" THEN "a" ELSE IF c = "B" THEN "b" ELSE c
Lower(s) == [i \in 1..Len(s) |-> LowerChar(s[i])]

\* Transaction references: None, the empty string and two real ones.
NoneTx == "<None>"
TxRefs == { NoneTx, "", "0xref1" }
\* a test for None alone: the empty string passes
Truthy_NotNone(tx) == tx # NoneTx
\* Python truthiness of Optional[str]
Truthy(tx) == tx # NoneTx /\ tx # ""

CandidateNames == { "X", "Y" }
NameLists == { <<"X", "Y">>, <<"Y">>, <<"X">>, <<"X", "X">> }
Titles == { "Test" }

\* ids handed to the handlers: existing ones and one that never exists
ElectionIds == 1..(MaxElections + 1)
CandidateIds == 1..3

\* ------------------------------------------------------------------- state
VARIABLES
    users,          \* committed rows of table users
    elections,      \* committed rows of table elections (with candidate list)
    candidates,     \* committed rows of table candidates
    votes,          \* committed rows of table votes
    nextId,         \* auto-increment counters per table
    w,              \* per worker: the request it runs and its locals
    calls,          \* number of requests the run may still start
    _chain_cache,   \* election id -> (cached_at, (names, counts))
    _blockchain_service,    \* the ledger service singleton: "None" or "service"
    ledger_configured,      \* RPC_URL and CONTRACT_ADDRESS: "set", "unset", or
                            \* "unread" until BlockchainService() first reads them
    now,            \* datetime.utcnow(), in seconds
    election_count  \* the ledger is append-only: the least number of elections
                    \* it can still report (what the program has seen of it)

store == << users, elections, candidates, votes, nextId >>
ledger == << _chain_cache, _blockchain_service, ledger_configured, now, election_count >>
vars == << users, elections, candidates, votes, nextId, w, calls,
           _chain_cache, _blockchain_service, ledger_configured, now, election_count >>

\* row constructors (models/__init__.py)
User(id, wallet, admin) == [id |-> id, wallet_address |-> wallet, is_admin |-> admin]
Candidate(id, name) == [id |-> id, name |-> name]
Election(id, title, by, cands, at) ==
    [id |-> id, title |-> title, created_by |-> by, candidates |-> cands,
     created_at |-> at]
Vote(id, e, v, c, tx) ==
    [id |-> id, election_id |-> e, voter_id |-> v, candidate_id |-> c, tx_hash |-> tx]

\* a ledger tally (names, counts); ok = FALSE stands for None
NoData == [ok |-> FALSE, names |-> << >>, counts |-> << >>]
Data(names, counts) == [ok |-> TRUE, names |-> names, counts |-> counts]
\* what getResults can answer: a tally, also the one of an election without
\* candidates
LedgerTallies == { Data(<< >>, << >>), Data(<<"X", "Y">>, <<5, 3>>) }
NoEntry == [present |-> FALSE, cached_at |-> 0, data |-> NoData]
NoTime == -1
\* electionCount() was not called / raised
NotAsked == -2
CountFailed == -1
Meta(status, cached, last_synced) ==
    [status |-> status, cached |-> cached, last_synced |-> last_synced]

NoResult == [status |-> "none", code |-> 0, message |-> ""]
Ok(code) == [status |-> "ok", code |-> code, message |-> ""]
Error(code, msg) == [status |-> "error", code |-> code, message |-> msg]
\* an exception that leaves the handler uncaught
Raised(exc) == [status |-> "raised", code |-> 500, message |-> exc]

Idle ==
    [ op |-> "idle", pc |-> "idle",
      wallet |-> NoWallet, election_id |-> 0, candidate_id |-> 0, tx_hash |-> NoneTx,
      user_id |-> 0,
      new_users |-> {}, new_votes |-> {},
      exc |-> "",
      res |-> NoResult,
      vote |-> Vote(0, 0, 0, 0, NoneTx),
      blockchain |-> [status |-> "none", tx_hash |-> NoneTx],
      election |-> Election(0, "", 0, << >>, 0),
      had_vote |-> {}, elections_read |-> {},
      include_blockchain |-> FALSE,
      local_results |-> << >>,
      entry |-> NoEntry,
      chain_election_id |-> -1,
      blockchain_data |-> NoData, fetched |-> NoData,
      blockchain_meta |-> Meta("none", FALSE, NoTime),
      results |-> << >>, source |-> "none",
      ledger_calls |-> [construct |-> 0, count |-> 0, fetch |-> 0],
      cache_ops |-> [reads |-> 0, pops |-> 0, stores |-> 0],
      last |-> "none",
      checked_at |-> NoTime, count |-> NotAsked, fetch_id |-> -1,
      title |-> "", names |-> << >>, listing |-> << >>,
      private_key |-> NoneTx, account |-> NoneTx,
      transact |-> [status |-> "none", tx_hash |-> NoneTx, ledger_calls |-> 0],
      max_attempts |-> 0, outcomes |-> << >> ]

\* The store right after create_all (empty), or after one wallet logged in
\* and created the election "Test" with candidates X and Y.
Init ==
    /\ \/ /\ users = {}
          /\ elections = {}
          /\ candidates = {}
          /\ nextId = [users |-> 1, elections |-> 1, candidates |-> 1, votes |-> 1]
       \/ /\ users = {User(1, <<"0", "x", "a">>, FALSE)}
          /\ elections = {Election(1, "Test", 1, <<1, 2>>, 0)}
          /\ candidates = {Candidate(1, "X"), Candidate(2, "Y")}
          /\ nextId = [users |-> 2, elections |-> 2, candidates |-> 3, votes |-> 1]
    /\ votes = {}
    /\ w = [p \in Workers |-> Idle]
    /\ calls = MaxCalls
    /\ _chain_cache = << >>
    /\ _blockchain_service = "None"
    /\ ledger_configured = "unread"
    /\ now = 0
    /\ election_count = 0

\* ------------------------------------------------------- the store (SQL)
\* SELECT ... WHERE wallet_address = :w as the session sees it: committed
\* rows and the rows this session flushed.  String equality is exact.
UsersSeenBy(p) == users \cup w[p].new_users
VotesSeenBy(p) == votes \cup w[p].new_votes
UserByWallet(p, wallet) == { u \in UsersSeenBy(p) : u.wallet_address = wallet }
\* a lookup that takes any election of the store
ElectionById_Any(id) == elections
\* the elections with this id (at most one)
ElectionById(id) == { e \in elections : e.id = id }
CandidateByName(name) == { c \in candidates : c.name = name }
VoteOf(rows, e, v) == { x \in rows : x.election_id = e /\ x.voter_id = v }

\* rows other sessions flushed and have not committed yet
OtherNewUsers(p) == UNION { w[q].new_users : q \in Workers \ {p} }
OtherNewVotes(p) == UNION { w[q].new_votes : q \in Workers \ {p} }

\* users.wallet_address is unique=True: an INSERT waits for an uncommitted
\* row with the same key and is rejected by a committed one.
UserInsertWaits(p, wallet) == \E u \in OtherNewUsers(p) : u.wallet_address = wallet
UserInsertRejected(wallet) == \E u \in users : u.wallet_address = wallet

\* a votes table declared without its uniqueness constraint
VoteInsertRejected_NoConstraint(e, v) == FALSE

\* votes: UniqueConstraint("election_id", "voter_id")
VoteInsertWaits(p, e, v) == VoteOf(OtherNewVotes(p), e, v) # {}
VoteInsertRejected(e, v) == VoteOf(votes, e, v) # {}

\* ------------------------------------------------------------ session_scope
\* a commit that keeps one vote row per election, the newest
CommitVotes_OnePerElection(rows, new) ==
    { x \in rows : \A n \in new : n.election_id # x.election_id } \cup new

\* session.commit(): the flushed inserts become rows of the table
CommitVotes(rows, new) == rows \cup new

\* a scope that rolls back when the block returns an error result
Commits_OnlySuccess(r) == r.exc = "" /\ r.res.status # "error"

\* a scope that commits whatever happened in the block
Commits_Always(r) == TRUE

\* the block ended without an exception, so session.commit() runs
Commits(r) == r.exc = ""

\* Leaving the with-block: commit when the block ended normally, rollback
\* when an exception escapes it; the session is closed either way.
SessionScopeExit(p) ==
    /\ w[p].pc = "exit"
    /\ IF Commits(w[p])
         THEN /\ users' = users \cup w[p].new_users
              /\ votes' = CommitVotes(votes, w[p].new_votes)
              /\ w' = [w EXCEPT ![p].pc = "done",
                                ![p].new_users = {}, ![p].new_votes = {}]
         ELSE /\ UNCHANGED << users, votes >>
              /\ w' = [w EXCEPT ![p].pc = "done",
                                ![p].new_users = {}, ![p].new_votes = {},
                                ![p].res = Raised(w[p].exc)]
    /\ UNCHANGED << elections, candidates, nextId, calls, ledger >>

\* A worker takes the next request when it is free.
Free(p) == w[p].pc \in {"idle", "done"} /\ calls > 0

\* ------------------------------------------------------------- record_vote
_format_blockchain_info(tx_hash) ==
    IF Truthy(tx_hash)
      THEN [status |-> "submitted", tx_hash |-> tx_hash]
      ELSE [status |-> "skipped", tx_hash |-> NoneTx]

\* the committed votes of the voter(s) stored under exactly this wallet string
\* in this election, as they are when the request starts (history only)
CommittedVotesOf(wallet, e) ==
    { x \in votes : x.election_id = e
                    /\ \E u \in users : u.wallet_address = wallet /\ u.id = x.voter_id }

RecordVoteCall(p, election_id, candidate_id, wallet, tx_hash) ==
    /\ Free(p)
    /\ calls' = calls - 1
    /\ w' = [w EXCEPT ![p] = [Idle EXCEPT !.op = "record_vote", !.pc = "select_user",
                                          !.election_id = election_id,
                                          !.candidate_id = candidate_id,
                                          !.wallet = wallet, !.tx_hash = tx_hash,
                                          !.had_vote = CommittedVotesOf(wallet, election_id)]]
    /\ UNCHANGED << store, ledger >>

\* ------------------------------------------------------ the access token
\* what the Authorization header of a request carries
Tokens == { "valid", "missing", "invalid", "expired" }

\* a decorator that lets an expired token through
jwt_required_IgnoreExpiry(token) ==
    IF token = "missing" THEN Error(401, "Autenticacao necessaria")
    ELSE IF token = "invalid" THEN Error(401, "Token invalido")
    ELSE NoResult

\* @jwt_required() with the loaders of register_jwt_callbacks: the answer
\* given instead of the view, NoResult when the view runs
jwt_required(token) ==
    IF token = "missing" THEN Error(401, "Autenticacao necessaria")
    ELSE IF token = "invalid" THEN Error(401, "Token invalido")
    ELSE IF token = "expired" THEN Error(401, "Token expirado")
    ELSE NoResult

\* the request is answered before the view function runs
Refuse(p, route, res) ==
    /\ Free(p)
    /\ calls' = calls - 1
    /\ w' = [w EXCEPT ![p] = [Idle EXCEPT !.op = route, !.pc = "done", !.res = res]]
    /\ UNCHANGED << store, ledger >>

\* POST /vote: the route answers 400 itself when an id or the transaction
\* reference is missing from the payload (0 stands for a missing id), before
\* it reads the token's wallet; otherwise it calls record_vote and relays
\* its answer
submit_vote(p, token, election_id, candidate_id, wallet, tx_hash) ==
    IF jwt_required(token) # NoResult
      THEN Refuse(p, "submit_vote", jwt_required(token))
    ELSE IF election_id = 0 \/ candidate_id = 0
      THEN /\ Free(p)
           /\ calls' = calls - 1
           /\ w' = [w EXCEPT ![p] = [Idle EXCEPT !.op = "submit_vote", !.pc = "done",
                         !.election_id = election_id, !.tx_hash = tx_hash,
                         !.res = Error(400, "electionId and candidateId are required")]]
           /\ UNCHANGED << store, ledger >>
    ELSE IF ~Truthy(tx_hash)
      THEN /\ Free(p)
           /\ calls' = calls - 1
           /\ w' = [w EXCEPT ![p] = [Idle EXCEPT !.op = "submit_vote", !.pc = "done",
                         !.election_id = election_id, !.tx_hash = tx_hash,
                         !.res = Error(400, "txHash is required")]]
           /\ UNCHANGED << store, ledger >>
    ELSE RecordVoteCall(p, election_id, candidate_id, wallet, tx_hash)

\* select(User).where(User.wallet_address == wallet).scalar_one_or_none()
RvSelectUser(p) ==
    /\ w[p].op = "record_vote" /\ w[p].pc = "select_user"
    /\ LET found == UserByWallet(p, w[p].wallet) IN
         IF found = {}
           THEN w' = [w EXCEPT ![p].pc = "insert_user"]
           ELSE w' = [w EXCEPT ![p].pc = "validate",
                               ![p].user_id = (CHOOSE u \in found : TRUE).id]
    /\ UNCHANGED << store, calls, ledger >>

\* user = User(wallet_address=wallet, is_admin=False); add; flush.  The
\* IntegrityError of a lost race is not caught here and leaves the block.
RvInsertUser(p) ==
    /\ w[p].op = "record_vote" /\ w[p].pc = "insert_user"
    /\ ~UserInsertWaits(p, w[p].wallet)
    /\ IF UserInsertRejected(w[p].wallet)
         THEN /\ w' = [w EXCEPT ![p].pc = "exit", ![p].exc = "IntegrityError"]
              /\ UNCHANGED nextId
         ELSE /\ w' = [w EXCEPT ![p].pc = "validate",
                                ![p].user_id = nextId.users,
                                ![p].new_users = {User(nextId.users, w[p].wallet, FALSE)}]
              /\ nextId' = [nextId EXCEPT !.users = @ + 1]
    /\ UNCHANGED << users, elections, candidates, votes, calls, ledger >>

\* index of candidate_id in election.candidates, 0 when absent
RECURSIVE IndexOf(_, _, _)
IndexOf(seq, x, i) ==
    IF i > Len(seq) THEN 0
    ELSE IF seq[i] = x THEN i
    ELSE IndexOf(seq, x, i + 1)

\* record_vote without its look-up of an existing vote
RecordVoteCheck_NoPriorCheck(p) ==
    LET election == ElectionById(w[p].election_id) IN
    IF election = {} THEN Error(404, "Election not found")
    ELSE IF IndexOf((CHOOSE e \in election : TRUE).candidates, w[p].candidate_id, 1) = 0
      THEN Error(404, "Candidate not found")
    ELSE IF ~Truthy(w[p].tx_hash)
      THEN Error(400, "txHash is required to register blockchain votes")
    ELSE NoResult

\* record_vote looking the candidate up in the candidates table instead of
\* in the election's own list
RecordVoteCheck_AnyCandidate(p) ==
    LET election == ElectionById(w[p].election_id) IN
    IF election = {} THEN Error(404, "Election not found")
    ELSE IF ~(\E c \in candidates : c.id = w[p].candidate_id)
      THEN Error(404, "Candidate not found")
    ELSE IF ~Truthy(w[p].tx_hash)
      THEN Error(400, "txHash is required to register blockchain votes")
    ELSE IF VoteOf(VotesSeenBy(p), w[p].election_id, w[p].user_id) # {}
      THEN Error(409, "Wallet already voted for this election")
    ELSE NoResult

\* record_vote looking for an existing vote before it tests the reference
RecordVoteCheck_PriorVoteFirst(p) ==
    LET election == ElectionById(w[p].election_id) IN
    IF election = {} THEN Error(404, "Election not found")
    ELSE IF IndexOf((CHOOSE e \in election : TRUE).candidates, w[p].candidate_id, 1) = 0
      THEN Error(404, "Candidate not found")
    ELSE IF VoteOf(VotesSeenBy(p), w[p].election_id, w[p].user_id) # {}
      THEN Error(409, "Wallet already voted for this election")
    ELSE IF ~Truthy(w[p].tx_hash)
      THEN Error(400, "txHash is required to register blockchain votes")
    ELSE NoResult

\* the checks of record_vote in the order of the code; NoResult when all pass
RecordVoteCheck(p) ==
    LET election == ElectionById(w[p].election_id) IN
    IF election = {} THEN Error(404, "Election not found")
    ELSE IF IndexOf((CHOOSE e \in election : TRUE).candidates, w[p].candidate_id, 1) = 0
      THEN Error(404, "Candidate not found")
    ELSE IF ~Truthy(w[p].tx_hash)
      THEN Error(400, "txHash is required to register blockchain votes")
    ELSE IF VoteOf(VotesSeenBy(p), w[p].election_id, w[p].user_id) # {}
      THEN Error(409, "Wallet already voted for this election")
    ELSE NoResult

RvValidate(p) ==
    /\ w[p].op = "record_vote" /\ w[p].pc = "validate"
    /\ LET r == RecordVoteCheck(p) IN
         IF r = NoResult
           THEN w' = [w EXCEPT ![p].pc = "insert_vote", ![p].elections_read = elections]
           ELSE w' = [w EXCEPT ![p].pc = "exit", ![p].res = r,
                               ![p].elections_read = elections]
    /\ UNCHANGED << store, calls, ledger >>

\* a Vote built with voter and candidate exchanged
NewVote_Swapped(p, id) ==
    Vote(id, w[p].election_id, w[p].candidate_id, w[p].user_id, w[p].tx_hash)

\* Vote(election_id=election_id, voter_id=user.id, candidate_id=candidate_id,
\*      tx_hash=tx_hash)
NewVote(p, id) ==
    Vote(id, w[p].election_id, w[p].user_id, w[p].candidate_id, w[p].tx_hash)

\* dict.pop(key, None)
Pop(cache, key) == [k \in DOMAIN cache \ {key} |-> cache[k]]

\* a vote that drops the election's cached tally
CacheAfterVote_Invalidate(cache, election_id) == Pop(cache, election_id)

\* record_vote has no statement on _chain_cache
CacheAfterVote(cache, election_id) == cache

\* session.add(vote); session.flush(); build the response
RvInsertVote(p) ==
    /\ w[p].op = "record_vote" /\ w[p].pc = "insert_vote"
    /\ ~VoteInsertWaits(p, w[p].election_id, w[p].user_id)
    /\ _chain_cache' = CacheAfterVote(_chain_cache, w[p].election_id)
    /\ IF VoteInsertRejected(w[p].election_id, w[p].user_id)
         THEN /\ w' = [w EXCEPT ![p].pc = "exit", ![p].exc = "IntegrityError"]
              /\ UNCHANGED nextId
         ELSE /\ LET row == NewVote(p, nextId.votes) IN
                   w' = [w EXCEPT ![p].pc = "exit",
                                  ![p].new_votes = {row},
                                  ![p].vote = row,
                                  ![p].blockchain = _format_blockchain_info(w[p].tx_hash),
                                  ![p].res = Ok(200)]
              /\ nextId' = [nextId EXCEPT !.votes = @ + 1]
    /\ UNCHANGED << users, elections, candidates, votes, calls,
                    _blockchain_service, ledger_configured, now, election_count >>

\* ------------------------------------------------------------------- login
\* recovered.lower() == wallet_address.lower(); a signature that cannot be
\* recovered (NoWallet) fails closed
verify_signature(wallet_address, recovered) ==
    /\ recovered # NoWallet
    /\ Lower(recovered) = Lower(wallet_address)

\* payload checks and the signature check come before the session is opened
LoginCall(p, wallet_address, recovered) ==
    /\ Free(p)
    /\ calls' = calls - 1
    /\ LET req == [Idle EXCEPT !.op = "login", !.wallet = wallet_address] IN
         IF wallet_address = NoWallet
           THEN w' = [w EXCEPT ![p] = [req EXCEPT !.pc = "done",
                         !.res = Error(400, "walletAddress, signature and nonce are required")]]
         ELSE IF ~verify_signature(wallet_address, recovered)
           THEN w' = [w EXCEPT ![p] = [req EXCEPT !.pc = "done",
                         !.res = Error(401, "Invalid signature")]]
         ELSE w' = [w EXCEPT ![p] = [req EXCEPT !.pc = "select_user"]]
    /\ UNCHANGED << store, ledger >>

\* session.query(User).filter_by(wallet_address=wallet_address).first()
LgSelectUser(p) ==
    /\ w[p].op = "login" /\ w[p].pc = "select_user"
    /\ LET found == UserByWallet(p, w[p].wallet) IN
         IF found = {}
           THEN w' = [w EXCEPT ![p].pc = "insert_user"]
           ELSE w' = [w EXCEPT ![p].pc = "exit", ![p].res = Ok(200),
                               ![p].user_id = (CHOOSE u \in found : TRUE).id]
    /\ UNCHANGED << store, calls, ledger >>

\* add + flush inside try; IntegrityError -> session.rollback(), answer 500
LgInsertUser(p) ==
    /\ w[p].op = "login" /\ w[p].pc = "insert_user"
    /\ ~UserInsertWaits(p, w[p].wallet)
    /\ IF UserInsertRejected(w[p].wallet)
         THEN /\ w' = [w EXCEPT ![p].pc = "exit", ![p].new_users = {},
                                ![p].res = Error(500, "Unable to create user")]
              /\ UNCHANGED nextId
         ELSE /\ w' = [w EXCEPT ![p].pc = "exit", ![p].res = Ok(200),
                                ![p].user_id = nextId.users,
                                ![p].new_users = {User(nextId.users, w[p].wallet, FALSE)}]
              /\ nextId' = [nextId EXCEPT !.users = @ + 1]
    /\ UNCHANGED << users, elections, candidates, votes, calls, ledger >>

\* --------------------------------------------------------- create_election
\* The loop over the candidate names: reuse the row with that name, else a
\* new Candidate (inserted by the flush, ids in list order).
\* a loop that puts each candidate at the front of election.candidates
RECURSIVE BuildCandidates_Prepend(_, _, _)
BuildCandidates_Prepend(names, next, acc) ==
    IF names = << >> THEN acc
    ELSE LET found == CandidateByName(Head(names)) IN
         IF Cardinality(found) > 1
           THEN [acc EXCEPT !.exc = "MultipleResultsFound"]
         ELSE IF found # {}
           THEN BuildCandidates_Prepend(Tail(names), next,
                    [acc EXCEPT !.ids = << (CHOOSE c \in found : TRUE).id >> \o @])
         ELSE BuildCandidates_Prepend(Tail(names), next + 1,
                    [acc EXCEPT !.ids = << next >> \o @,
                                !.new = @ \cup {Candidate(next, Head(names))}])

\* the loop of create_election (lines 81-87): the candidate found by name, or
\* a new one, appended to election.candidates
RECURSIVE BuildCandidates(_, _, _)
BuildCandidates(names, next, acc) ==
    IF names = << >> THEN acc
    ELSE LET found == CandidateByName(Head(names)) IN
         IF Cardinality(found) > 1
           THEN [acc EXCEPT !.exc = "MultipleResultsFound"]
         ELSE IF found # {}
           THEN BuildCandidates(Tail(names), next,
                    [acc EXCEPT !.ids = Append(@, (CHOOSE c \in found : TRUE).id)])
         ELSE BuildCandidates(Tail(names), next + 1,
                    [acc EXCEPT !.ids = Append(@, next),
                                !.new = @ \cup {Candidate(next, Head(names))}])

\* the flush inserts one election_candidates row per entry of
\* election.candidates: a candidate appended twice gives the same
\* (election_id, candidate_id) twice, which the primary key rejects
AssociationRejected(ids) == \E i, j \in 1..Len(ids) : i # j /\ ids[i] = ids[j]

\* what datetime.utcnow reads for created_at, against the latest created_at
\* in the table: the same reading (0) or a later one (1); the first election
\* is stamped 0
ClockReadings == {0, 1}
LatestCreatedAt ==
    IF elections = {} THEN 0
    ELSE CHOOSE t \in { e.created_at : e \in elections } :
             \A e \in elections : e.created_at <= t
CreatedAt(reading) == IF elections = {} THEN 0 ELSE LatestCreatedAt + reading

\* a creator look-up that forgot its where clause
CreatorOf_AnyUser(creator_wallet) == users

\* select(User).where(User.wallet_address == creator_wallet)
CreatorOf(creator_wallet) == { u \in users : u.wallet_address = creator_wallet }

\* the whole session_scope block of create_election in one transaction
CreateElection(p, title, names, creator_wallet, tx_hash, reading) ==
    /\ Free(p)
    /\ calls' = calls - 1
    /\ LET req == [Idle EXCEPT !.op = "create_election", !.pc = "done",
                               !.wallet = creator_wallet, !.tx_hash = tx_hash,
                               !.title = title, !.names = names]
           user == CreatorOf(creator_wallet)
           built == BuildCandidates(names, nextId.candidates,
                                    [ids |-> << >>, new |-> {}, exc |-> ""])
           \* the exception that leaves the block, "" when none does
           exc == IF user = {} THEN "ValueError"
                  ELSE IF built.exc # "" THEN built.exc
                  ELSE IF AssociationRejected(built.ids) THEN "IntegrityError"
                  ELSE ""
           \* session.flush() was reached: it inserts the election and the
           \* new candidates, then the association rows (none of them when
           \* the insert is rejected)
           flushed == exc \in {"", "IntegrityError"}
       IN
         IF flushed /\ Commits([req EXCEPT !.exc = exc])
           THEN /\ Cardinality(elections) < MaxElections
                /\ LET row == Election(nextId.elections, title,
                                       (CHOOSE u \in user : TRUE).id,
                                       IF exc = "" THEN built.ids ELSE << >>,
                                       CreatedAt(reading)) IN
                     /\ elections' = elections \cup {row}
                     /\ w' = [w EXCEPT ![p] =
                                 IF exc = ""
                                   THEN [req EXCEPT !.res = Ok(201),
                                            !.election = row,
                                            !.blockchain = _format_blockchain_info(tx_hash)]
                                   ELSE [req EXCEPT !.res = Raised(exc)]]
                /\ candidates' = candidates \cup built.new
                /\ nextId' = [nextId EXCEPT !.elections = @ + 1,
                                            !.candidates = @ + Cardinality(built.new)]
           ELSE /\ w' = [w EXCEPT ![p] = [req EXCEPT !.res = Raised(exc)]]
                /\ UNCHANGED << elections, candidates, nextId >>
    /\ UNCHANGED << users, votes, ledger >>

\* ---------------------------------------------------- get_election_results
\* name of a candidate row
NameOf(id) == (CHOOSE c \in candidates : c.id = id).name

\* a count over the votes of every election
LocalResults_AllElections(election) ==
    [i \in 1..Len(election.candidates) |->
        [candidate |-> NameOf(election.candidates[i]),
         votes |-> Cardinality({ x \in votes : x.candidate_id = election.candidates[i] })]]

\* vote_counts, then the local result list: one entry per candidate of the
\* election in list order, counting the election's Vote rows
LocalResults(election) ==
    [i \in 1..Len(election.candidates) |->
        [candidate |-> NameOf(election.candidates[i]),
         votes |-> Cardinality({ x \in votes : /\ x.election_id = election.id
                                               /\ x.candidate_id = election.candidates[i] })]]

\* [{"candidate": names[idx], "votes": counts[idx]} for idx in range(len(names))]
ChainResults(data) ==
    [i \in 1..Len(data.names) |-> [candidate |-> data.names[i], votes |-> data.counts[i]]]

\* a source decided by the truth value of the name list, not of the tuple
ResultSource_ByNames(blockchain_data) ==
    IF blockchain_data.ok /\ blockchain_data.names # << >> THEN "blockchain" ELSE "database"

\* "blockchain" if blockchain_data else "database"
ResultSource(blockchain_data) == IF blockchain_data.ok THEN "blockchain" ELSE "database"

\* a view that shows the ledger tally whenever the ledger was asked for
Respond_ChainWhenAsked(r) ==
    [r EXCEPT !.pc = "done", !.res = Ok(200),
              !.results = IF r.include_blockchain THEN ChainResults(r.blockchain_data)
                                                  ELSE r.local_results,
              !.source = IF r.include_blockchain THEN "blockchain" ELSE "database"]

\* the tail of get_election_results: build the result list and the view
Respond(r) ==
    [r EXCEPT !.pc = "done", !.res = Ok(200),
              !.results = IF r.blockchain_data.ok THEN ChainResults(r.blockchain_data)
                                                  ELSE r.local_results,
              !.source = ResultSource(r.blockchain_data)]

\* the cache and the ledger consulted on every request
ConsultLedger_Always(include_blockchain) == TRUE

\* if include_blockchain:
ConsultLedger(include_blockchain) == include_blockchain

GetResultsCall(p, election_id, include_blockchain) ==
    /\ Free(p)
    /\ calls' = calls - 1
    /\ w' = [w EXCEPT ![p] = [Idle EXCEPT !.op = "get_election_results",
                                          !.pc = "read_store",
                                          !.election_id = election_id,
                                          !.include_blockchain = include_blockchain]]
    /\ UNCHANGED << store, ledger >>

\* the session_scope block: the election, or None; the local tally.  Nothing
\* is written, so its commit changes nothing.  Without include_blockchain the
\* rest of the function touches no shared state.
GrReadStore(p) ==
    /\ w[p].op = "get_election_results" /\ w[p].pc = "read_store"
    /\ LET election == ElectionById(w[p].election_id) IN
         IF election = {}
           THEN w' = [w EXCEPT ![p].pc = "done",
                               ![p].res = Error(404, "Election not found")]
           ELSE LET r == [w[p] EXCEPT
                            !.last = "read_store",
                            !.elections_read = elections,
                            !.local_results = LocalResults(CHOOSE e \in election : TRUE),
                            !.blockchain_meta =
                                Meta(IF ~w[p].include_blockchain THEN "skipped"
                                                                 ELSE "unavailable",
                                     FALSE, NoTime)]
                IN IF ConsultLedger(w[p].include_blockchain)
                     THEN w' = [w EXCEPT ![p] = [r EXCEPT !.pc = "cache_get"]]
                     ELSE w' = [w EXCEPT ![p] = Respond(r)]
    /\ UNCHANGED << store, calls, ledger >>

\* _get_cached_chain_results, first half: cached = _chain_cache.get(id)
GrCacheGet(p) ==
    /\ w[p].op = "get_election_results" /\ w[p].pc = "cache_get"
    /\ IF w[p].election_id \in DOMAIN _chain_cache
         THEN w' = [w EXCEPT ![p].pc = "cache_check", ![p].last = "cache_get",
                             ![p].cache_ops.reads = @ + 1,
                             ![p].entry = [present |-> TRUE,
                                 cached_at |-> _chain_cache[w[p].election_id].cached_at,
                                 data |-> _chain_cache[w[p].election_id].data]]
         ELSE w' = [w EXCEPT ![p].pc = "get_service", ![p].last = "cache_get",
                             ![p].cache_ops.reads = @ + 1]
    /\ UNCHANGED << store, calls, ledger >>

\* an entry that expires on reaching the TTL
Expired_AtTtl(cached_at, t) == t - cached_at >= CACHE_TTL_SECONDS

\* entries that never age
Expired_Never(cached_at, t) == FALSE

\* utcnow() - cached_at > timedelta(seconds=CACHE_TTL_SECONDS)
Expired(cached_at, t) == t - cached_at > CACHE_TTL_SECONDS

\* second half: an expired entry is popped and the lookup is a miss; else the
\* hit marks the view cached
GrCacheCheck(p) ==
    /\ w[p].op = "get_election_results" /\ w[p].pc = "cache_check"
    /\ IF Expired(w[p].entry.cached_at, now)
         THEN /\ _chain_cache' = Pop(_chain_cache, w[p].election_id)
              /\ w' = [w EXCEPT ![p].pc = "get_service", ![p].last = "cache_check",
                                ![p].checked_at = now,
                                ![p].cache_ops.pops = @ + 1]
         ELSE /\ UNCHANGED _chain_cache
              /\ w' = [w EXCEPT ![p] = Respond(
                          [w[p] EXCEPT !.last = "cache_check", !.checked_at = now,
                                       !.blockchain_data = w[p].entry.data,
                                       !.blockchain_meta =
                                           Meta("cached", TRUE, w[p].entry.cached_at)])]
    /\ UNCHANGED << store, calls, _blockchain_service, ledger_configured, now, election_count >>

\* What BlockchainService() can do when the configuration is present: succeed,
\* or fail reading the chain id over RPC, or fail loading the contract.
ConstructOutcomes == { "ok", "ConnectionError", "RuntimeError" }

\* get_blockchain_service: the singleton, built on first use; only
\* BlockchainUnavailable (configuration missing) is caught and gives None.
\* env is what os.getenv finds: the process environment does not change, so
\* it is fixed by the first read.
GrGetService(p, env, outcome) ==
    /\ w[p].op = "get_election_results" /\ w[p].pc = "get_service"
    /\ IF _blockchain_service # "None"
         THEN /\ outcome = "ok" /\ env = ledger_configured
              /\ w' = [w EXCEPT ![p].pc = "resolve", ![p].last = "get_service"]
              /\ UNCHANGED << _blockchain_service, ledger_configured >>
         ELSE /\ ledger_configured \in {"unread", env}
              /\ ledger_configured' = env
              /\ IF env = "unset"
                   THEN /\ outcome = "ok"
                        /\ w' = [w EXCEPT ![p] = Respond(
                                    [w[p] EXCEPT !.last = "get_service",
                                                 !.ledger_calls.construct = @ + 1,
                                                 !.blockchain_meta.status = "disabled"])]
                        /\ UNCHANGED _blockchain_service
                   ELSE IF outcome = "ok"
                     THEN /\ w' = [w EXCEPT ![p].pc = "resolve", ![p].last = "get_service",
                                            ![p].ledger_calls.construct = @ + 1]
                          /\ _blockchain_service' = "service"
                     ELSE /\ w' = [w EXCEPT ![p].pc = "done", ![p].last = "get_service",
                                            ![p].ledger_calls.construct = @ + 1,
                                            ![p].res = Raised(outcome)]
                          /\ UNCHANGED _blockchain_service
    /\ UNCHANGED << store, calls, _chain_cache, now, election_count >>

\* what electionCount().call() can do: raise (CountFailed) or answer a count
CountOutcomes == CountFailed..MaxChainCount

Max(a, b) == IF a >= b THEN a ELSE b

\* an id equal to the count taken for an election the ledger holds
_resolve_chain_election_id_OffByOne(election_id, count) ==
    LET chain_election_id == election_id - 1 IN
    IF chain_election_id < 0 THEN -1
    ELSE IF count = CountFailed THEN chain_election_id
    ELSE IF chain_election_id > count THEN -1
    ELSE chain_election_id

\* a failed count query taken for "no such election"
_resolve_chain_election_id_NoneOnFailure(election_id, count) ==
    LET chain_election_id == election_id - 1 IN
    IF chain_election_id < 0 THEN -1
    ELSE IF count = CountFailed THEN -1
    ELSE IF chain_election_id >= count THEN -1
    ELSE chain_election_id

\* _resolve_chain_election_id; -1 stands for None
_resolve_chain_election_id(election_id, count) ==
    LET chain_election_id == election_id - 1 IN
    IF chain_election_id < 0 THEN -1
    ELSE IF count = CountFailed THEN chain_election_id
    ELSE IF chain_election_id >= count THEN -1
    ELSE chain_election_id

\* the count the ledger answers never goes down
GrResolve(p, count) ==
    /\ w[p].op = "get_election_results" /\ w[p].pc = "resolve"
    /\ count = CountFailed \/ count >= election_count
    /\ election_count' = Max(election_count, count)
    /\ LET id == _resolve_chain_election_id(w[p].election_id, count)
           r == [w[p] EXCEPT !.last = "resolve", !.chain_election_id = id,
                             !.count = count,
                             !.ledger_calls.count =
                                 IF w[p].election_id - 1 < 0 THEN @ ELSE @ + 1]
       IN IF id = -1
            THEN w' = [w EXCEPT ![p] = Respond([r EXCEPT !.blockchain_meta.status = "not_found"])]
            ELSE w' = [w EXCEPT ![p] = [r EXCEPT !.pc = "fetch"]]
    /\ UNCHANGED << store, calls, _chain_cache, _blockchain_service, ledger_configured, now >>

\* a failed fetch that leaves the metadata as it was initialised
MissingMeta_Unchanged(meta) == meta

\* blockchain_meta["status"] = "missing"
MissingMeta(meta) == [meta EXCEPT !.status = "missing"]

\* BlockchainService.fetch_results: the tally, or None on any exception.
\* getResults answers only for an election the ledger holds (it holds at
\* most MaxChainCount), and the ledger holds it from then on.
GrFetch(p, answer) ==
    /\ w[p].op = "get_election_results" /\ w[p].pc = "fetch"
    /\ answer.ok => w[p].chain_election_id < MaxChainCount
    /\ election_count' = IF answer.ok THEN Max(election_count, w[p].chain_election_id + 1)
                                      ELSE election_count
    /\ LET r == [w[p] EXCEPT !.last = "fetch",
                             !.blockchain_data = answer, !.fetched = answer,
                             !.fetch_id = w[p].chain_election_id,
                             !.ledger_calls.fetch = @ + 1]
       IN IF answer.ok
            THEN w' = [w EXCEPT ![p] = [r EXCEPT !.pc = "store"]]
            ELSE w' = [w EXCEPT ![p] = Respond([r EXCEPT !.blockchain_meta = MissingMeta(@)])]
    /\ UNCHANGED << store, calls, _chain_cache, _blockchain_service, ledger_configured, now >>

\* dict.setdefault: an entry already under the key is kept
Store_KeepExisting(cache, key, t, data) ==
    [k \in DOMAIN cache \cup {key} |->
        IF k \in DOMAIN cache THEN cache[k] ELSE [cached_at |-> t, data |-> data]]

\* a store under the ledger's id of the election instead of the local one
Store_UnderLedgerId(cache, key, t, data) ==
    [k \in DOMAIN cache \cup {key - 1} |->
        IF k = key - 1 THEN [cached_at |-> t, data |-> data] ELSE cache[k]]

\* _store_chain_results: _chain_cache[election_id] = (utcnow(), (names, counts))
Store(cache, key, t, data) ==
    [k \in DOMAIN cache \cup {key} |->
        IF k = key THEN [cached_at |-> t, data |-> data] ELSE cache[k]]

GrStore(p) ==
    /\ w[p].op = "get_election_results" /\ w[p].pc = "store"
    /\ _chain_cache' = Store(_chain_cache, w[p].election_id, now, w[p].blockchain_data)
    /\ w' = [w EXCEPT ![p] = Respond(
                [w[p] EXCEPT !.last = "store", !.cache_ops.stores = @ + 1,
                             !.blockchain_meta = Meta("fresh", FALSE, now)])]
    /\ UNCHANGED << store, calls, _blockchain_service, ledger_configured, now, election_count >>

\* time passes; the clock is read only to stamp and to age cache entries, so
\* it is counted from the moment the cache first holds one, for as long as
\* an entry is held by the cache or by a lookup
Tick ==
    /\ DOMAIN _chain_cache # {} \/ \E p \in Workers : w[p].pc = "cache_check"
    /\ now < MaxTime
    /\ now' = now + 1
    /\ UNCHANGED << store, w, calls, _chain_cache, _blockchain_service, ledger_configured,
                    election_count >>

\* ------------------------------------------------------------ list_elections
\* Candidate.to_dict / Election.to_dict (description and the text form of
\* created_at left out)
CandidateDict(id) == [id |-> id, name |-> NameOf(id)]
ElectionDict(e) ==
    [id |-> e.id, title |-> e.title, created_at |-> e.created_at,
     candidates |-> [i \in 1..Len(e.candidates) |-> CandidateDict(e.candidates[i])]]

\* the rows listed oldest first
OrderedBy_Ascending(order) ==
    \A i \in 1..Len(order), j \in 1..Len(order) :
        i < j => order[i].created_at <= order[j].created_at

\* order_by(Election.created_at.desc())
OrderedBy(order) ==
    \A i \in 1..Len(order), j \in 1..Len(order) :
        i < j => order[i].created_at >= order[j].created_at

\* the ways the store can return the rows of the elections table: each row
\* once; rows with equal created_at come in either order
ListOrders ==
    { order \in [1..Cardinality(elections) -> elections] :
          \A i, j \in 1..Cardinality(elections) : order[i] = order[j] => i = j }

\* the query with its candidates joined, each election turned into a dict
list_elections(p, order) ==
    /\ Free(p)
    /\ OrderedBy(order)
    /\ calls' = calls - 1
    /\ w' = [w EXCEPT ![p] = [Idle EXCEPT !.op = "list_elections", !.pc = "done",
                 !.res = Ok(200),
                 !.listing = [i \in 1..Len(order) |-> ElectionDict(order[i])]]]
    /\ UNCHANGED << store, ledger >>

\* ---------------------------------------------------------------- the routes
\* GET /elections
get_all_elections(p, token, order) ==
    IF jwt_required(token) # NoResult
      THEN Refuse(p, "get_all_elections", jwt_required(token))
      ELSE list_elections(p, order)

\* payloads of POST /elections: "" and << >> stand for a missing title and a
\* missing or empty candidate list
RouteTitles == Titles \cup { "" }
RouteNameLists == { <<"X", "Y">>, << >> }

\* POST /elections: the payload checks, then create_election is called with
\* the keyword chain_election_id, which its signature does not have: the call
\* raises TypeError before the function body runs, and the route catches
\* ValueError only
create_new_election(p, token, wallet, title, names, tx_hash) ==
    LET req == [Idle EXCEPT !.op = "create_new_election", !.pc = "done",
                            !.wallet = wallet, !.title = title, !.names = names,
                            !.tx_hash = tx_hash]
    IN
    IF jwt_required(token) # NoResult
      THEN Refuse(p, "create_new_election", jwt_required(token))
      ELSE /\ Free(p)
           /\ calls' = calls - 1
           /\ w' = [w EXCEPT ![p] =
                    IF title = "" \/ names = << >>
                      THEN [req EXCEPT !.res = Error(400, "title and candidates are required")]
                    ELSE IF ~Truthy(tx_hash)
                      THEN [req EXCEPT !.res = Error(400, "txHash is required")]
                    ELSE [req EXCEPT !.res = Raised("TypeError")]]
           /\ UNCHANGED << store, ledger >>

\* GET /elections/<id>/results: None from the service is answered 404
election_results(p, token, election_id, include_blockchain) ==
    IF jwt_required(token) # NoResult
      THEN Refuse(p, "election_results", jwt_required(token))
      ELSE GetResultsCall(p, election_id, include_blockchain)

\* ---------------------------------------------------------------- behaviour
Next ==
    \/ \E p \in Workers :
        \/ Free(p) /\ \E wa \in Wallets \cup {NoWallet}, rec \in Wallets \cup {NoWallet} :
              LoginCall(p, wa, rec)
        \/ LgSelectUser(p)
        \/ LgInsertUser(p)
        \/ Free(p) /\ \E t \in Titles, n \in NameLists, wa \in Wallets, tx \in TxRefs,
              reading \in ClockReadings :
              CreateElection(p, t, n, wa, tx, reading)
        \/ Free(p) /\ \E e \in ElectionIds, c \in CandidateIds, wa \in Wallets, tx \in TxRefs :
              RecordVoteCall(p, e, c, wa, tx)
        \/ Free(p) /\ \E tk \in Tokens, e \in ElectionIds \cup {0}, c \in CandidateIds,
              wa \in Wallets, tx \in TxRefs :
              submit_vote(p, tk, e, c, wa, tx)
        \/ Free(p) /\ \E order \in ListOrders : list_elections(p, order)
        \/ Free(p) /\ \E tk \in Tokens, order \in ListOrders : get_all_elections(p, tk, order)
        \/ Free(p) /\ \E tk \in Tokens, wa \in Wallets, t \in RouteTitles, n \in RouteNameLists,
              tx \in TxRefs :
              create_new_election(p, tk, wa, t, n, tx)
        \/ Free(p) /\ \E tk \in Tokens, e \in ElectionIds, inc \in BOOLEAN :
              election_results(p, tk, e, inc)
        \/ RvSelectUser(p)
        \/ RvInsertUser(p)
        \/ RvValidate(p)
        \/ RvInsertVote(p)
        \/ SessionScopeExit(p)
        \/ Free(p) /\ \E e \in ElectionIds, inc \in BOOLEAN : GetResultsCall(p, e, inc)
        \/ GrReadStore(p)
        \/ GrCacheGet(p)
        \/ GrCacheCheck(p)
        \/ \E env \in {"set", "unset"}, outcome \in ConstructOutcomes :
              GrGetService(p, env, outcome)
        \/ \E count \in CountOutcomes : GrResolve(p, count)
        \/ \E answer \in LedgerTallies \cup {NoData} : GrFetch(p, answer)
        \/ GrStore(p)
    \/ Tick

Spec == Init /\ [][Next]_vars

\* ---------------------------------------------- the result cache, at length
\* One request more than MaxCalls, on a store that holds the election "Test"
\* and a second one on candidate Y alone: results requests with the ledger
\* included, and votes.
CacheElectionIds == {1, 2}
CacheCandidateIds == {1, 2}

InitCache ==
    /\ users = {User(1, <<"0", "x", "a">>, FALSE)}
    /\ elections = {Election(1, "Test", 1, <<1, 2>>, 0), Election(2, "Test", 1, <<2>>, 1)}
    /\ candidates = {Candidate(1, "X"), Candidate(2, "Y")}
    /\ nextId = [users |-> 2, elections |-> 3, candidates |-> 3, votes |-> 1]
    /\ votes = {}
    /\ w = [p \in Workers |-> Idle]
    /\ calls = MaxCalls + 1
    /\ _chain_cache = << >>
    /\ _blockchain_service = "None"
    /\ ledger_configured = "unread"
    /\ now = 0
    /\ election_count = 0

NextCache ==
    \/ \E p \in Workers :
        \/ Free(p) /\ \E e \in CacheElectionIds, c \in CacheCandidateIds, wa \in Wallets :
              RecordVoteCall(p, e, c, wa, "0xref1")
        \/ RvSelectUser(p)
        \/ RvInsertUser(p)
        \/ RvValidate(p)
        \/ RvInsertVote(p)
        \/ SessionScopeExit(p)
        \/ Free(p) /\ \E e \in CacheElectionIds : GetResultsCall(p, e, TRUE)
        \/ GrReadStore(p)
        \/ GrCacheGet(p)
        \/ GrCacheCheck(p)
        \/ \E env \in {"set", "unset"}, outcome \in ConstructOutcomes :
              GrGetService(p, env, outcome)
        \/ \E count \in CountOutcomes : GrResolve(p, count)
        \/ \E answer \in LedgerTallies \cup {NoData} : GrFetch(p, answer)
        \/ GrStore(p)
    \/ Tick

SpecCache == InitCache /\ [][NextCache]_vars

\* ------------------------------------------------- the HTTP layer alone
\* every request comes through a route, with any token, on the seeded store
InitRoutes == Init /\ elections # {}

NextRoutes ==
    \/ \E p \in Workers :
        \/ Free(p) /\ \E tk \in Tokens, e \in ElectionIds \cup {0}, c \in CandidateIds,
              wa \in Wallets, tx \in TxRefs :
              submit_vote(p, tk, e, c, wa, tx)
        \/ Free(p) /\ \E tk \in Tokens, order \in ListOrders : get_all_elections(p, tk, order)
        \/ Free(p) /\ \E tk \in Tokens, wa \in Wallets, t \in RouteTitles, n \in RouteNameLists,
              tx \in TxRefs :
              create_new_election(p, tk, wa, t, n, tx)
        \/ Free(p) /\ \E tk \in Tokens, e \in ElectionIds, inc \in BOOLEAN :
              election_results(p, tk, e, inc)
        \/ RvSelectUser(p)
        \/ RvInsertUser(p)
        \/ RvValidate(p)
        \/ RvInsertVote(p)
        \/ SessionScopeExit(p)
        \/ GrReadStore(p)
        \/ GrCacheGet(p)
        \/ GrCacheCheck(p)
        \/ \E env \in {"set", "unset"}, outcome \in ConstructOutcomes :
              GrGetService(p, env, outcome)
        \/ \E count \in CountOutcomes : GrResolve(p, count)
        \/ \E answer \in LedgerTallies \cup {NoData} : GrFetch(p, answer)
        \/ GrStore(p)
    \/ Tick

SpecRoutes == InitRoutes /\ [][NextRoutes]_vars

\* ------------------------------------------- the ledger id, as a function
\* _resolve_chain_election_id applied to every local id from 0 and every
\* outcome of the count query
ProbeIds == 0..(MaxElections + 1)

ResolveProbe(p, election_id, count) ==
    /\ w' = [w EXCEPT ![p] = [Idle EXCEPT
                 !.op = "_resolve_chain_election_id", !.pc = "done",
                 !.election_id = election_id, !.count = count,
                 !.chain_election_id = _resolve_chain_election_id(election_id, count)]]
    /\ UNCHANGED << store, calls, ledger >>

\* ------------------------------------------- ledger submissions (_transact)
\* what os.getenv gives for PRIVATE_KEY and ACCOUNT_ADDRESS: None, "" or a value
EnvValues == { NoneTx, "", "set" }

\* the calls of the try block in order: get_transaction_count, gas_price,
\* build_transaction, sign_transaction, send_raw_transaction; the k-th one
\* raises (0: none does)
TransactCalls == 5
FailAt == 0..TransactCalls

\* a submission skipped only when both credentials are missing
_transact_SkipWhenBothMissing(private_key, account, fail_at) ==
    IF ~Truthy(private_key) /\ ~Truthy(account)
      THEN [status |-> "skipped", tx_hash |-> NoneTx, ledger_calls |-> 0]
    ELSE IF fail_at = 0
      THEN [status |-> "submitted", tx_hash |-> "0xref1", ledger_calls |-> TransactCalls]
    ELSE [status |-> "error", tx_hash |-> NoneTx, ledger_calls |-> fail_at]

\* BlockchainService._transact: the BlockchainResult, with the number of
\* calls it started
_transact(private_key, account, fail_at) ==
    IF ~Truthy(private_key) \/ ~Truthy(account)
      THEN [status |-> "skipped", tx_hash |-> NoneTx, ledger_calls |-> 0]
    ELSE IF fail_at = 0
      THEN [status |-> "submitted", tx_hash |-> "0xref1", ledger_calls |-> TransactCalls]
    ELSE [status |-> "error", tx_hash |-> NoneTx, ledger_calls |-> fail_at]

\* BlockchainService.cast_vote and BlockchainService.create_election
TransactProbe(p, function_name, private_key, account, fail_at) ==
    /\ w' = [w EXCEPT ![p] = [Idle EXCEPT
                 !.op = function_name, !.pc = "done",
                 !.private_key = private_key, !.account = account,
                 !.transact = _transact(private_key, account, fail_at)]]
    /\ UNCHANGED << store, calls, ledger >>

NextPure ==
    \/ \E p \in Workers, id \in ProbeIds, count \in CountOutcomes : ResolveProbe(p, id, count)
    \/ \E p \in Workers, f \in {"BlockchainService.cast_vote", "BlockchainService.create_election"},
          k \in EnvValues, a \in EnvValues, fail_at \in FailAt :
          TransactProbe(p, f, k, a, fail_at)

SpecPure == Init /\ [][NextPure]_vars

\* ------------------------------------------------------- wait_for_database
\* create_app calls wait_for_database after init_engine, so get_engine gives
\* the engine.  Each pass of the loop connects and runs SELECT 1.
MaxAttempts == 3
AttemptLimits == 0..MaxAttempts

\* what one attempt can do: succeed, raise OperationalError, or raise another
\* exception, which the except clause does not catch
ConnectOutcomes == { "ok", "OperationalError", "InterfaceError" }

\* a loop over range(1, max_attempts + 2)
LoopEnds_OneMore(attempt, max_attempts) == attempt >= max_attempts + 1

\* for attempt in range(1, max_attempts + 1): the loop is over after pass
\* number max_attempts
LoopEnds(attempt, max_attempts) == attempt >= max_attempts

\* the call: with nothing in the range the loop body never runs and the
\* function raises at once
wait_for_database(p, max_attempts) ==
    /\ Free(p)
    /\ calls' = calls - 1
    /\ LET req == [Idle EXCEPT !.op = "wait_for_database",
                               !.max_attempts = max_attempts] IN
         IF LoopEnds(0, max_attempts)
           THEN w' = [w EXCEPT ![p] = [req EXCEPT !.pc = "done",
                                          !.res = Raised("RuntimeError")]]
           ELSE w' = [w EXCEPT ![p] = [req EXCEPT !.pc = "connect"]]
    /\ UNCHANGED << store, ledger >>

\* one pass of the loop: return on success; log, sleep and go on after an
\* OperationalError, raising RuntimeError when the range is used up
Connect(p, outcome) ==
    /\ w[p].op = "wait_for_database" /\ w[p].pc = "connect"
    /\ LET r == [w[p] EXCEPT !.outcomes = Append(@, outcome)] IN
         IF outcome = "ok"
           THEN w' = [w EXCEPT ![p] = [r EXCEPT !.pc = "done", !.res = Ok(0)]]
         ELSE IF outcome # "OperationalError"
           THEN w' = [w EXCEPT ![p] = [r EXCEPT !.pc = "done", !.res = Raised(outcome)]]
         ELSE IF LoopEnds(Len(r.outcomes), w[p].max_attempts)
           THEN w' = [w EXCEPT ![p] = [r EXCEPT !.pc = "done",
                                          !.res = Raised("RuntimeError")]]
         ELSE w' = [w EXCEPT ![p] = r]
    /\ UNCHANGED << store, calls, ledger >>

NextWait ==
    \E p \in Workers :
        \/ Free(p) /\ \E m \in AttemptLimits : wait_for_database(p, m)
        \/ \E outcome \in ConnectOutcomes : Connect(p, outcome)

\* an attempt returns or raises, and time.sleep returns: a pass that has
\* started is completed
SpecWait ==
    /\ Init
    /\ [][NextWait]_vars
    /\ \A p \in Workers : WF_vars(\E outcome \in ConnectOutcomes : Connect(p, outcome))

\* ================================================================ properties
NoVote == Vote(0, 0, 0, 0, NoneTx)

\* a finished record_vote request of worker p
RvDone(p) == w[p].op = "record_vote" /\ w[p].pc = "done"
\* ... whose election existed when the request queried it (elections_read
\* records the table as it was then) / whose candidate is in that list
RvElection(p) == { e \in w[p].elections_read : e.id = w[p].election_id }
RvElectionExists(p) == RvElection(p) # {}
RvCandidateIsMember(p) ==
    \E e \in RvElection(p) :
        \E i \in 1..Len(e.candidates) : e.candidates[i] = w[p].candidate_id
\* ... whose voter was resolved (looked up or created)
RvVoterResolved(p) == w[p].user_id # 0

\* C1: in every reachable state of the store at most one Vote row exists for
\* each (election id, voter id) pair, whatever the interleaving of requests.
C1_OneVotePerElectionAndVoter ==
    \A x \in votes, y \in votes :
        (x.election_id = y.election_id /\ x.voter_id = y.voter_id) => x = y

\* C1 witness: a vote is stored and a second, concurrent attempt for the same
\* pair got past the existence check and was stopped at the insert.
C1_Witness ==
    \E p \in Workers :
        /\ RvDone(p) /\ RvVoterResolved(p)
        /\ w[p].res.status = "raised"
        /\ VoteOf(votes, w[p].election_id, w[p].user_id) # {}

\* C2: every record_vote with an existing election, a member candidate, a
\* non-empty reference and a resolved voter ends in ok or in error 409 - the
\* uniqueness violation of a lost race included, never an uncaught exception.
C2_RaceLoserGets409 ==
    \A p \in Workers :
        (RvDone(p) /\ RvVoterResolved(p) /\ RvCandidateIsMember(p) /\ Truthy(w[p].tx_hash))
            => \/ w[p].res.status = "ok"
               \/ (w[p].res.status = "error" /\ w[p].res.code = 409)

\* C3: a record_vote that starts when its wallet already has a committed
\* vote in the election, names a candidate of the election and carries a
\* non-empty reference ends in error 409, inserts nothing and leaves the
\* recorded vote as it was.
C3_LaterVoteIsConflict ==
    \A p \in Workers :
        (RvDone(p) /\ w[p].had_vote # {} /\ RvCandidateIsMember(p) /\ Truthy(w[p].tx_hash))
            => /\ w[p].res = Error(409, "Wallet already voted for this election")
               /\ w[p].vote = NoVote
               /\ VoteOf(votes, w[p].election_id, w[p].user_id) = w[p].had_vote

\* C3 witness: such a request finished, naming another candidate than the
\* one recorded.
C3_Witness ==
    \E p \in Workers :
        /\ RvDone(p) /\ RvCandidateIsMember(p) /\ Truthy(w[p].tx_hash)
        /\ \E x \in w[p].had_vote : x.candidate_id # w[p].candidate_id
        /\ w[p].res.code = 409

\* C4: a record_vote (voter resolved, election existing) whose candidate id is
\* not in the election's candidate list ends in error 404 "Candidate not
\* found" and inserts no Vote row.
C4_ForeignCandidateIs404 ==
    \A p \in Workers :
        (RvDone(p) /\ RvVoterResolved(p) /\ RvElectionExists(p) /\ ~RvCandidateIsMember(p))
            => /\ w[p].res = Error(404, "Candidate not found")
               /\ w[p].vote = NoVote
               /\ \A x \in votes : x.election_id = w[p].election_id
                                   => x.candidate_id # w[p].candidate_id

\* C4 witness: the rejected candidate id exists and is in the list of another
\* election.
C4_Witness ==
    \E p \in Workers :
        /\ RvDone(p) /\ RvVoterResolved(p) /\ RvElectionExists(p) /\ ~RvCandidateIsMember(p)
        /\ \E e \in elections :
              /\ e.id # w[p].election_id
              /\ \E i \in 1..Len(e.candidates) : e.candidates[i] = w[p].candidate_id
        /\ w[p].res.code = 404

\* C5: a finished record_vote with an existing election, a member candidate,
\* a non-empty reference and a resolved voter who has no other vote in that
\* election has inserted exactly one Vote row with the given election id, the
\* voter's id, the given candidate id and the given reference, and answers ok
\* with that vote and the descriptor {submitted, reference}.
C5_SuccessfulVote ==
    \A p \in Workers :
        (/\ RvDone(p) /\ RvVoterResolved(p) /\ RvCandidateIsMember(p) /\ Truthy(w[p].tx_hash)
         /\ VoteOf(votes, w[p].election_id, w[p].user_id) \subseteq {w[p].vote})
            => /\ w[p].res = Ok(200)
               /\ VoteOf(votes, w[p].election_id, w[p].user_id) = {w[p].vote}
               /\ w[p].vote.election_id = w[p].election_id
               /\ w[p].vote.candidate_id = w[p].candidate_id
               /\ w[p].vote.tx_hash = w[p].tx_hash
               /\ \E u \in users : /\ u.wallet_address = w[p].wallet
                                   /\ u.id = w[p].vote.voter_id
               /\ w[p].blockchain = [status |-> "submitted", tx_hash |-> w[p].tx_hash]

\* C5 witness: a vote went through for a wallet seen for the first time.
C5_Witness ==
    \E p \in Workers :
        /\ RvDone(p) /\ w[p].res = Ok(200)
        /\ w[p].vote \in votes
        /\ w[p].vote.voter_id > 1

\* C6: wallet addresses that differ only in letter case resolve to the same
\* Voter row: the store never holds two users whose addresses have the same
\* lowercase form.
C6_OneVoterPerAddress ==
    \A u1 \in users, u2 \in users :
        Lower(u1.wallet_address) = Lower(u2.wallet_address) => u1 = u2

\* a finished get_election_results request of worker p that returned a view
GrDone(p) == w[p].op = "get_election_results" /\ w[p].pc = "done"
GrView(p) == GrDone(p) /\ w[p].res = Ok(200)
\* ... that went past the cache lookup without a hit
GrMiss(p) == w[p].last \in {"get_service", "resolve", "fetch", "store"}

\* C7: a view returned for include_blockchain = false was built without any
\* ledger call (construction, election count, tally) and without reading or
\* changing the result cache, and its source is "database".
C7_NoLedgerWhenNotAsked ==
    \A p \in Workers :
        (GrView(p) /\ ~w[p].include_blockchain)
            => /\ w[p].ledger_calls = [construct |-> 0, count |-> 0, fetch |-> 0]
               /\ w[p].cache_ops = [reads |-> 0, pops |-> 0, stores |-> 0]
               /\ w[p].source = "database"
               /\ w[p].results = w[p].local_results

\* C7 witness: such a view was returned while the cache held an entry for the
\* election and the ledger service was up.
C7_Witness ==
    \E p \in Workers :
        /\ GrView(p) /\ ~w[p].include_blockchain
        /\ w[p].election_id \in DOMAIN _chain_cache
        /\ _blockchain_service = "service"

\* the returned result list is a ledger tally: the one this request fetched
\* or the one it took from the cache
LedgerTallyReturned(p) ==
    \/ w[p].fetched.ok /\ w[p].results = ChainResults(w[p].fetched)
    \/ /\ w[p].last = "cache_check" /\ w[p].entry.present
       /\ w[p].results = ChainResults(w[p].entry.data)

\* C8: in every returned view the source is "blockchain" exactly when the
\* result list is a ledger tally (fetched or cached); otherwise the source is
\* "database" and the result list is the local tally.
C8_SourceTellsOrigin ==
    \A p \in Workers :
        GrView(p)
            => /\ (w[p].source = "blockchain") <=> LedgerTallyReturned(p)
               /\ w[p].source # "blockchain"
                    => (w[p].source = "database" /\ w[p].results = w[p].local_results)

\* C8 witness: a view with a ledger tally without candidates, taken from the
\* cache.
C8_Witness ==
    \E p \in Workers :
        /\ GrView(p) /\ w[p].source = "blockchain"
        /\ w[p].blockchain_meta.status = "cached"
        /\ w[p].results = << >>

\* the view falls back on the local tally and stored nothing
GrFallback(p) ==
    /\ w[p].results = w[p].local_results
    /\ w[p].source = "database"
    /\ w[p].cache_ops.stores = 0
    /\ w[p].election_id \in DOMAIN _chain_cache
          => _chain_cache[w[p].election_id].data.ok

\* C9: with include_blockchain = true and a cache miss the status is
\* "disabled" when no ledger service is configured, "not_found" when the
\* ledger id resolved to None, "missing" when the fetch returned None; each
\* time the results are the local tally, the source is "database" and nothing
\* was stored in the cache.
C9_LedgerFailureStatus ==
    \A p \in Workers :
        (GrView(p) /\ w[p].include_blockchain /\ GrMiss(p))
            => /\ ledger_configured = "unset"
                    => (w[p].blockchain_meta.status = "disabled" /\ GrFallback(p))
               /\ (w[p].last = "resolve" /\ w[p].chain_election_id = -1)
                    => (w[p].blockchain_meta.status = "not_found" /\ GrFallback(p))
               /\ (w[p].last = "fetch" /\ ~w[p].fetched.ok)
                    => (w[p].blockchain_meta.status = "missing" /\ GrFallback(p))

\* C9 witness: a failed fetch for an election that has a local vote.
C9_Witness ==
    \E p \in Workers :
        /\ GrView(p) /\ w[p].include_blockchain
        /\ w[p].last = "fetch" /\ ~w[p].fetched.ok
        /\ \E i \in 1..Len(w[p].results) : w[p].results[i].votes > 0

\* C10: for an existing election and include_blockchain = true every request
\* returns a view, whatever fails on the ledger side.
C10_LedgerFailureNeverRaises ==
    \A p \in Workers :
        (/\ GrDone(p) /\ w[p].include_blockchain
         /\ \E e \in w[p].elections_read : e.id = w[p].election_id)
            => w[p].res = Ok(200)

\* a results request that found an entry under its id and took its age
GrLookedUp(p) ==
    /\ GrDone(p) /\ w[p].include_blockchain
    /\ w[p].entry.present /\ w[p].checked_at # NoTime
AgeAtLookup(p) == w[p].checked_at - w[p].entry.cached_at
NoLedgerCall == [construct |-> 0, count |-> 0, fetch |-> 0]

\* C11: with include_blockchain = true, a request that finds the election's
\* entry within CACHE_TTL_SECONDS returns the cached tally with cached = TRUE
\* and the entry's capture time as last_synced, and makes no ledger call; a
\* request that finds it older makes exactly one tally fetch and, when the
\* fetch succeeds, answers "fresh" and stores the tally in the cache.
C11_CacheWindow ==
    \A p \in Workers :
        GrLookedUp(p) =>
            IF AgeAtLookup(p) <= CACHE_TTL_SECONDS
              THEN /\ w[p].res = Ok(200)
                   /\ w[p].blockchain_meta = Meta("cached", TRUE, w[p].entry.cached_at)
                   /\ w[p].results = ChainResults(w[p].entry.data)
                   /\ w[p].source = "blockchain"
                   /\ w[p].ledger_calls = NoLedgerCall
                   /\ w[p].cache_ops.stores = 0
              ELSE /\ w[p].ledger_calls.fetch = 1
                   /\ w[p].fetched.ok
                        => /\ w[p].res = Ok(200)
                           /\ w[p].blockchain_meta.status = "fresh"
                           /\ ~w[p].blockchain_meta.cached
                           /\ w[p].results = ChainResults(w[p].fetched)
                           /\ w[p].cache_ops.stores = 1

\* C11 witness: one request answered from an entry of age CACHE_TTL_SECONDS,
\* another found the entry older and answered with a fresh tally.
C11_Witness ==
    \E p, q \in Workers :
        /\ GrLookedUp(p) /\ AgeAtLookup(p) = CACHE_TTL_SECONDS
        /\ w[p].blockchain_meta.cached
        /\ GrLookedUp(q) /\ AgeAtLookup(q) > CACHE_TTL_SECONDS
        /\ w[q].blockchain_meta.status = "fresh"
        /\ w[q].election_id \in DOMAIN _chain_cache

\* the steps in which worker p's lookup reads the cache and compares the age
CacheGetStep(p) == w[p].pc = "cache_get" /\ w'[p].pc # "cache_get"
CacheCheckStep(p) == w[p].pc = "cache_check" /\ w'[p].pc # "cache_check"
LookupMisses(p) == w'[p].pc = "get_service" /\ ~w'[p].blockchain_data.ok

C12_LookupStep(p) ==
    LET id == w[p].election_id IN
    /\ (CacheGetStep(p) /\ id \notin DOMAIN _chain_cache)
          => (LookupMisses(p) /\ _chain_cache' = _chain_cache)
    /\ (CacheGetStep(p) /\ id \in DOMAIN _chain_cache)
          => /\ w'[p].entry = [present |-> TRUE,
                               cached_at |-> _chain_cache[id].cached_at,
                               data |-> _chain_cache[id].data]
             /\ _chain_cache' = _chain_cache
    /\ CacheCheckStep(p)
          => IF now - w[p].entry.cached_at > CACHE_TTL_SECONDS
               THEN /\ LookupMisses(p)
                    /\ id \notin DOMAIN _chain_cache'
                    /\ \A k \in DOMAIN _chain_cache \ {id} :
                          k \in DOMAIN _chain_cache' /\ _chain_cache'[k] = _chain_cache[k]
               ELSE /\ _chain_cache' = _chain_cache
                    /\ w'[p].blockchain_data = w[p].entry.data
                    /\ w'[p].blockchain_meta = Meta("cached", TRUE, w[p].entry.cached_at)
                    /\ w'[p].pc = "done"

\* C12: the cache lookup is a miss when the id has no entry or the entry is
\* older than CACHE_TTL_SECONDS, and the expired entry is removed; within the
\* TTL it is a hit that returns the stored names, counts and capture time and
\* leaves the cache, capture time included, as it was.
C12_Lookup == [][\A p \in Workers : C12_LookupStep(p)]_vars

\* C12 witness: two hits on the same entry, at age 0 and at age
\* CACHE_TTL_SECONDS, and the entry still carries its capture time.
C12_Witness ==
    \E p, q \in Workers :
        /\ GrLookedUp(p) /\ w[p].blockchain_meta.cached /\ AgeAtLookup(p) = 0
        /\ GrLookedUp(q) /\ w[q].blockchain_meta.cached
        /\ AgeAtLookup(q) = CACHE_TTL_SECONDS
        /\ w[q].election_id = w[p].election_id
        /\ w[q].entry = w[p].entry
        /\ w[p].election_id \in DOMAIN _chain_cache
        /\ _chain_cache[w[p].election_id].cached_at = w[p].entry.cached_at

StoreStep(p) == w[p].pc = "store" /\ w'[p].pc # "store"

C13_StoreStep(p) ==
    LET id == w[p].election_id IN
    /\ StoreStep(p)
          => /\ DOMAIN _chain_cache' = DOMAIN _chain_cache \cup {id}
             /\ _chain_cache'[id] = [cached_at |-> now, data |-> w[p].fetched]
             /\ \A k \in DOMAIN _chain_cache \ {id} : _chain_cache'[k] = _chain_cache[k]
    /\ (CacheGetStep(p) /\ id \in DOMAIN _chain_cache)
          => /\ w'[p].entry.cached_at = _chain_cache[id].cached_at
             /\ w'[p].entry.data = _chain_cache[id].data
    /\ (CacheCheckStep(p) /\ now - w[p].entry.cached_at <= CACHE_TTL_SECONDS)
          => /\ w'[p].blockchain_data = w[p].entry.data
             /\ w'[p].blockchain_meta.last_synced = w[p].entry.cached_at
             /\ w'[p].results = ChainResults(w[p].entry.data)

\* C13: storing a tally puts it under the election's id whatever was there,
\* stamped with the time of the store, and leaves every other election's
\* entry alone; a lookup within the TTL then returns exactly the names,
\* counts and time of the entry it reads.
C13_Store == [][\A p \in Workers : C13_StoreStep(p)]_vars

\* C13 witness: two stores for one election, the later one over the earlier
\* entry before it expired, while another election's entry sits in the cache.
C13_Witness ==
    \E p, q \in Workers :
        /\ GrView(p) /\ w[p].last = "store"
        /\ GrView(q) /\ w[q].last = "store" /\ w[q].cache_ops.pops = 0
        /\ w[p].election_id = w[q].election_id
        /\ w[p].fetched # w[q].fetched
        /\ w[q].blockchain_meta.last_synced - w[p].blockchain_meta.last_synced
              = CACHE_TTL_SECONDS
        /\ _chain_cache[w[q].election_id] =
              [cached_at |-> w[q].blockchain_meta.last_synced, data |-> w[q].fetched]
        /\ \E k \in DOMAIN _chain_cache : k # w[q].election_id

\* a step of record_vote by worker p, from the call to the end of its session
RecordVoteStep(p) == w'[p] # w[p] /\ w'[p].op = "record_vote"
\* a results request answered from the cache
GrHit(p) == GrLookedUp(p) /\ w[p].blockchain_meta.cached

\* C14: no step of record_vote, successful or not, changes the result cache;
\* and a results request answered from the cache returns the entry's tally,
\* whatever votes the store holds by then.
C14_VotesLeaveCacheAlone ==
    /\ [][\A p \in Workers : RecordVoteStep(p) => _chain_cache' = _chain_cache]_vars
    /\ [](\A p \in Workers :
            GrHit(p) => /\ w[p].results = ChainResults(w[p].entry.data)
                        /\ w[p].blockchain_meta.last_synced = w[p].entry.cached_at)

\* C14 witness: a vote was recorded for an election, the entry of that
\* election is still in the cache, and a request that counted the vote in its
\* local tally answered with the cached tally.
C14_Witness ==
    \E p, q \in Workers :
        /\ RvDone(q) /\ w[q].res = Ok(200) /\ w[q].vote \in votes
        /\ GrHit(p) /\ w[p].election_id = w[q].election_id
        /\ \E i \in 1..Len(w[p].local_results) : w[p].local_results[i].votes > 0
        /\ w[p].results # w[p].local_results
        /\ w[p].election_id \in DOMAIN _chain_cache
        /\ _chain_cache[w[p].election_id].cached_at = w[p].entry.cached_at

\* C15: under every interleaving of lookups and stores, the entry a lookup
\* removes from the cache is expired at the moment it is removed.
C15_EvictsOnlyExpired ==
    [][\A p \in Workers :
          (/\ CacheCheckStep(p)
           /\ w[p].election_id \in DOMAIN _chain_cache
           /\ w[p].election_id \notin DOMAIN _chain_cache')
             => now - _chain_cache[w[p].election_id].cached_at > CACHE_TTL_SECONDS]_vars

\* worker p holds the answer of _resolve_chain_election_id
Resolved(p) ==
    \/ w[p].op = "_resolve_chain_election_id"
    \/ w[p].op = "get_election_results" /\ w[p].last \in {"resolve", "fetch", "store"}

\* C16: when the ledger's election count is readable, the ledger id of local
\* id n is n - 1 if 0 <= n - 1 < count, and None (-1) if n - 1 is negative
\* or not below the count.
C16_ResolveWithCount ==
    \A p \in Workers :
        (Resolved(p) /\ w[p].count >= 0)
            => w[p].chain_election_id =
                  IF 0 <= w[p].election_id - 1 /\ w[p].election_id - 1 < w[p].count
                    THEN w[p].election_id - 1
                    ELSE -1

\* C16 witness: local id 2 resolved to 1 under count 2, and to None under
\* count 1.
C16_Witness ==
    \E p, q \in Workers :
        /\ Resolved(p) /\ w[p].election_id = 2 /\ w[p].count = 2
        /\ w[p].chain_election_id = 1
        /\ Resolved(q) /\ w[q].election_id = 2 /\ w[q].count = 1
        /\ w[q].chain_election_id = -1

\* C17: when the count query fails, local id n >= 1 resolves to n - 1, and
\* get_election_results fetches the tally under that id once: the view is
\* "fresh" if the fetch succeeds and "missing" if it does not.
C17_CountFailureStillFetches ==
    \A p \in Workers :
        (GrDone(p) /\ w[p].count = CountFailed)
            => /\ w[p].chain_election_id = w[p].election_id - 1
               /\ w[p].ledger_calls.fetch = 1
               /\ w[p].fetch_id = w[p].election_id - 1
               /\ w[p].res = Ok(200)
               /\ w[p].blockchain_meta.status =
                     IF w[p].fetched.ok THEN "fresh" ELSE "missing"

\* C17 witness: the count query failed for two requests; one fetch succeeded,
\* the other did not.
C17_Witness ==
    \E p, q \in Workers :
        /\ GrDone(p) /\ w[p].count = CountFailed
        /\ w[p].fetched.ok /\ w[p].blockchain_meta.status = "fresh"
        /\ GrDone(q) /\ w[q].count = CountFailed
        /\ ~w[q].fetched.ok /\ w[q].blockchain_meta.status = "missing"

\* C18: every login (past the signature check) and every record_vote ends
\* with a Voter resolved for its wallet, also when another request inserted
\* the row for that wallet first, and the login answers 200: no request that
\* loses the insert ends in a server error or an exception.
C18_ResolveRaceContinues ==
    \A p \in Workers :
        w[p].pc = "done"
            => /\ w[p].op = "record_vote" => RvVoterResolved(p)
               /\ (w[p].op = "login" /\ w[p].res.code \notin {400, 401})
                     => (w[p].res = Ok(200) /\ w[p].user_id # 0)

\* a transaction reference that is absent or empty
NoReference(tx) == tx = NoneTx \/ tx = ""

\* C19: a vote attempt without a transaction reference is answered 400 and
\* creates no Vote row: POST /vote answers before record_vote is called, and
\* record_vote itself answers 400 when the election exists and the candidate
\* is one of its candidates.
C19_NoReferenceNoVote ==
    /\ \A p \in Workers :
          (/\ w[p].op = "submit_vote" /\ w[p].pc = "done"
           /\ w[p].res.code # 401 /\ NoReference(w[p].tx_hash))
              => /\ w[p].res.status = "error" /\ w[p].res.code = 400
                 /\ w[p].vote = NoVote /\ w[p].user_id = 0
    /\ \A p \in Workers :
          (/\ RvDone(p) /\ RvVoterResolved(p) /\ NoReference(w[p].tx_hash)
           /\ RvElectionExists(p) /\ RvCandidateIsMember(p))
              => /\ w[p].res = Error(400, "txHash is required to register blockchain votes")
                 /\ w[p].vote = NoVote
    /\ \A x \in votes : ~NoReference(x.tx_hash)
    /\ \A p \in Workers : \A x \in w[p].new_votes : ~NoReference(x.tx_hash)

\* C19 witness: the route refused a payload with an empty reference, and
\* record_vote refused a call without one for a candidate of the election.
C19_Witness ==
    \E p, q \in Workers :
        /\ w[p].op = "submit_vote" /\ w[p].pc = "done"
        /\ w[p].election_id # 0 /\ w[p].tx_hash = ""
        /\ w[p].res = Error(400, "txHash is required")
        /\ RvDone(q) /\ RvElectionExists(q) /\ RvCandidateIsMember(q)
        /\ w[q].tx_hash = NoneTx /\ w[q].res.code = 400

\* the step in which worker p runs create_election
CreateStep(p) == w'[p] # w[p] /\ w'[p].op = "create_election"

\* C20: create_election for a creator wallet that has no User row fails
\* (ValueError "Creator not found") and the store is left as it was: no
\* Election, no Candidate, no association row, no id consumed.
C20_UnknownCreatorPersistsNothing ==
    [][\A p \in Workers :
          (CreateStep(p) /\ \A u \in users : u.wallet_address # w'[p].wallet)
             => /\ w'[p].res = Raised("ValueError")
                /\ w'[p].election = Idle.election
                /\ store' = store]_vars

\* C20 witness: the store holds a user and an election, and create_election
\* failed for a wallet that is not the user's, leaving one election.
C20_Witness ==
    \E p \in Workers :
        /\ w[p].op = "create_election" /\ w[p].pc = "done"
        /\ w[p].res = Raised("ValueError")
        /\ users # {} /\ \A u \in users : u.wallet_address # w[p].wallet
        /\ Cardinality(elections) = 1 /\ Cardinality(candidates) = 2

\* C21: at most one Candidate row exists for each name, and two elections
\* that list the same name list the same Candidate id for it.
C21_CandidatesSharedByName ==
    /\ \A c1 \in candidates, c2 \in candidates : c1.name = c2.name => c1 = c2
    /\ \A e1 \in elections, e2 \in elections :
          \A i \in 1..Len(e1.candidates), j \in 1..Len(e2.candidates) :
              NameOf(e1.candidates[i]) = NameOf(e2.candidates[j])
                  => e1.candidates[i] = e2.candidates[j]

\* C22: no election's candidate list has two entries with the same name,
\* whatever list of names create_election was given.
C22_NoRepeatedNameInElection ==
    \A e \in elections :
        \A i \in 1..Len(e.candidates), j \in 1..Len(e.candidates) :
            NameOf(e.candidates[i]) = NameOf(e.candidates[j]) => i = j

\* the step in which worker p's request to POST /elections is answered
CreateRouteStep(p) == w'[p] # w[p] /\ w'[p].op = "create_new_election"

\* C23: a request to POST /elections with a valid token of a wallet that has
\* a User row, a non-empty title, a non-empty candidate list and a txHash is
\* answered 201 and stores an election with that title and one candidate per
\* name.
C23_CreateEndpointAnswers201 ==
    [][\A p \in Workers :
          (/\ CreateRouteStep(p)
           /\ w'[p].res.code # 401
           /\ w'[p].title # "" /\ w'[p].names # << >>
           /\ ~NoReference(w'[p].tx_hash)
           /\ \E u \in users : u.wallet_address = w'[p].wallet)
             => /\ w'[p].res = Ok(201)
                /\ \E e \in elections' \ elections :
                      e.title = w'[p].title /\ Len(e.candidates) = Len(w'[p].names)]_vars

\* worker p's request was answered 401 before any view or service function
\* ran, and nothing but the worker's own record changed
Refused401(p) ==
    /\ w'[p].res.status = "error" /\ w'[p].res.code = 401
    /\ w'[p] = [Idle EXCEPT !.op = w'[p].op, !.pc = "done", !.res = w'[p].res]
    /\ store' = store
    /\ ledger' = ledger

\* the step is a request of worker p to one of the four routes with token tk
RouteRequest(p, tk) ==
    \/ \E order \in ListOrders : get_all_elections(p, tk, order)
    \/ \E wa \in Wallets, t \in RouteTitles, n \in RouteNameLists, tx \in TxRefs :
          create_new_election(p, tk, wa, t, n, tx)
    \/ \E e \in ElectionIds, inc \in BOOLEAN : election_results(p, tk, e, inc)
    \/ \E e \in ElectionIds \cup {0}, c \in CandidateIds, wa \in Wallets, tx \in TxRefs :
          submit_vote(p, tk, e, c, wa, tx)

\* C24: a request to list elections, create an election, read results or
\* cast a vote whose token is missing, invalid or expired is answered 401,
\* reaches no service function and changes neither the store nor the cache.
C24_TokenRequired ==
    [][\A p \in Workers :
          (Free(p) /\ w'[p] # w[p])
             => \A tk \in Tokens \ {"valid"} : Refused401(p) \/ ~RouteRequest(p, tk)]_vars

\* C24 witness: a vote without a token and a results request with an expired
\* one were refused while the store holds an election.
C24_Witness ==
    \E p, q \in Workers :
        /\ w[p].op = "submit_vote" /\ w[p].res = Error(401, "Autenticacao necessaria")
        /\ w[q].op = "election_results" /\ w[q].res = Error(401, "Token expirado")
        /\ elections # {} /\ votes = {} /\ DOMAIN _chain_cache = {}

\* the step in which worker p's results request reads the store
ReadStoreStep(p) ==
    /\ w[p].op = "get_election_results"
    /\ w[p].pc = "read_store" /\ w'[p].pc # "read_store"

RECURSIVE SumVotes(_)
SumVotes(results) ==
    IF results = << >> THEN 0 ELSE Head(results).votes + SumVotes(Tail(results))

\* the tally read by a step is the group-count of the Vote rows of election e
TallyOf(tally, e) ==
    /\ Len(tally) = Len(e.candidates)
    /\ \A i \in 1..Len(tally) :
          /\ \E c \in candidates : c.id = e.candidates[i] /\ c.name = tally[i].candidate
          /\ tally[i].votes =
                Cardinality({ x \in votes : /\ x.election_id = e.id
                                             /\ x.candidate_id = e.candidates[i] })
    /\ SumVotes(tally) = Cardinality({ x \in votes : x.election_id = e.id })

\* C25: the local tally a results request reads has one entry per candidate
\* of the election, each counting the Vote rows of that election and
\* candidate (0 when there are none), and the counts add up to the election's
\* Vote rows; a view whose source is "database" returns that tally.
C25_LocalTally ==
    /\ [][\A p \in Workers : \A e \in elections :
            (ReadStoreStep(p) /\ e.id = w[p].election_id)
                => TallyOf(w'[p].local_results, e)]_vars
    /\ [](\A p \in Workers :
            (GrView(p) /\ w[p].source = "database")
                => w[p].results = w[p].local_results)

\* C25 witness: a view from the database for the election on Y alone, with
\* one vote, while Y also has a vote in the other election.
C25_Witness ==
    \E p \in Workers :
        /\ GrView(p) /\ w[p].source = "database" /\ w[p].election_id = 2
        /\ w[p].results = << [candidate |-> "Y", votes |-> 1] >>
        /\ \E x \in votes : x.election_id = 1 /\ x.candidate_id = 2

\* worker p holds the result of a ledger submission
Submitted(p) ==
    w[p].op \in {"BlockchainService.cast_vote", "BlockchainService.create_election"}
\* an environment variable that is absent or empty
Unset(v) == v = NoneTx \/ v = ""

\* C26: a ledger submission ends as submitted with a transaction reference,
\* or as skipped or error without one, never in an exception; it is skipped
\* exactly when PRIVATE_KEY and ACCOUNT_ADDRESS are not both set, and then no
\* ledger call was made.
C26_SubmissionOutcome ==
    \A p \in Workers :
        Submitted(p)
            => /\ w[p].transact.status \in {"submitted", "skipped", "error"}
               /\ w[p].res.status # "raised"
               /\ w[p].transact.status = "submitted" <=> ~Unset(w[p].transact.tx_hash)
               /\ w[p].transact.status = "skipped"
                     <=> (Unset(w[p].private_key) \/ Unset(w[p].account))
               /\ w[p].transact.status = "skipped" => w[p].transact.ledger_calls = 0

\* C26 witness: a vote submitted with both credentials set, and an election
\* submission skipped because the private key is the empty string.
C26_Witness ==
    \E p, q \in Workers :
        /\ w[p].op = "BlockchainService.cast_vote"
        /\ w[p].transact.status = "submitted" /\ w[p].transact.tx_hash = "0xref1"
        /\ w[q].op = "BlockchainService.create_election"
        /\ w[q].private_key = "" /\ w[q].account = "set"
        /\ w[q].transact.status = "skipped"

\* the step is a list_elections call of worker p
ListStep(p) == \E order \in ListOrders : list_elections(p, order)

\* the ids of the candidates attached to a listed election
AttachedIds(d) == { d.candidates[i].id : i \in 1..Len(d.candidates) }

\* C27: list_elections returns every election of the store exactly once,
\* most recently created first, each with its own candidates attached.
C27_ListsEveryElectionNewestFirst ==
    [][\A p \in Workers :
          ListStep(p)
             => /\ w'[p].res = Ok(200)
                /\ Len(w'[p].listing) = Cardinality(elections)
                /\ \A e \in elections :
                      \E i \in 1..Len(w'[p].listing) :
                          /\ w'[p].listing[i].id = e.id
                          /\ w'[p].listing[i].title = e.title
                          /\ AttachedIds(w'[p].listing[i])
                                = { e.candidates[k] : k \in 1..Len(e.candidates) }
                          /\ \A k \in 1..Len(w'[p].listing[i].candidates) :
                                w'[p].listing[i].candidates[k].name
                                  = NameOf(w'[p].listing[i].candidates[k].id)
                          /\ \A j \in 1..Len(w'[p].listing) :
                                w'[p].listing[j].id = e.id => j = i
                /\ \A i, j \in 1..Len(w'[p].listing) :
                      \A e, f \in elections :
                          (i < j /\ e.id = w'[p].listing[i].id /\ f.id = w'[p].listing[j].id)
                              => e.created_at >= f.created_at
                /\ store' = store]_vars

\* C27 witness: a listing of two elections created at different times, the
\* newer one first, whose candidate sets differ.
C27_Witness ==
    \E p \in Workers :
        /\ w[p].op = "list_elections" /\ w[p].pc = "done"
        /\ Len(w[p].listing) = 2
        /\ w[p].listing[1].id = 2 /\ w[p].listing[2].id = 1
        /\ w[p].listing[1].created_at > w[p].listing[2].created_at
        /\ AttachedIds(w[p].listing[1]) # AttachedIds(w[p].listing[2])

\* C28: get_election_results for an id that no local Election has answers
\* "Election not found" (404 at the route) whatever include_blockchain is,
\* without a cache operation or a ledger call, also when the ledger holds an
\* election at the mapped id and the cache holds entries.
C28_UnknownElectionNotFound ==
    [][\A p \in Workers :
          (ReadStoreStep(p) /\ \A e \in elections : e.id # w[p].election_id)
             => /\ w'[p].pc = "done"
                /\ w'[p].res = Error(404, "Election not found")
                /\ w'[p].ledger_calls = NoLedgerCall
                /\ w'[p].cache_ops = [reads |-> 0, pops |-> 0, stores |-> 0]
                /\ ledger' = ledger
                /\ store' = store]_vars

\* C28 witness: election 2 does not exist, the ledger is known to hold an
\* election at the mapped id 1, the cache holds an entry, and a request for
\* election 2 with include_blockchain was answered 404.
C28_Witness ==
    \E p \in Workers :
        /\ GrDone(p) /\ w[p].res = Error(404, "Election not found")
        /\ w[p].election_id = 2 /\ w[p].include_blockchain
        /\ \A e \in elections : e.id # 2
        /\ election_count >= 2
        /\ DOMAIN _chain_cache # {}
        /\ w[p].ledger_calls = NoLedgerCall

\* within its call, worker p asked the ledger at most once for the count and
\* at most once for the tally, and for the tally only with a resolved id
AskedAtMostOnce(p) ==
    /\ w[p].ledger_calls.construct <= 1
    /\ w[p].ledger_calls.count <= 1
    /\ w[p].ledger_calls.fetch <= 1
    /\ w[p].ledger_calls.fetch = 1
          => /\ w[p].chain_election_id # -1
             /\ w[p].fetch_id = w[p].chain_election_id
             /\ w[p].ledger_calls.count = 1

\* a ledger call of worker p's request failed: the client could not be
\* built, the count query raised, or the tally fetch gave nothing
LedgerCallFailed(p) ==
    \/ w[p].last = "get_service" /\ w[p].res.status = "raised"
    \/ w[p].count = CountFailed
    \/ w[p].ledger_calls.fetch = 1 /\ ~w[p].fetched.ok

\* C29: within one get_election_results call the ledger is asked at most
\* once for the election count and at most once for the tally, the tally only
\* after the id resolved to a value, and a request in which a ledger call
\* failed answers with the local tally in that same call.
C29_NoRetryFallsBack ==
    \A p \in Workers :
        w[p].op = "get_election_results"
            => /\ AskedAtMostOnce(p)
               /\ (w[p].pc = "done" /\ LedgerCallFailed(p))
                     => /\ GrView(p)
                        /\ w[p].source = "database"
                        /\ w[p].results = w[p].local_results

\* the same without the fallback of a failed call
AskedOnce == \A p \in Workers : w[p].op = "get_election_results" => AskedAtMostOnce(p)

\* the fallback after a failed tally fetch alone
FailedFetchFallsBack ==
    \A p \in Workers :
        (GrDone(p) /\ w[p].ledger_calls.fetch = 1 /\ ~w[p].fetched.ok)
            => GrView(p) /\ w[p].source = "database" /\ w[p].results = w[p].local_results

\* the Voters stored under wallet address a, compared on the lowercase form
VotersAt(a) == { u \in users : Lower(u.wallet_address) = Lower(a) }

\* C30: resolving a wallet address without a Voter creates exactly one Voter,
\* not an admin; resolving an address that has a Voter creates nothing and
\* yields that Voter; no step deletes a Voter or changes its wallet address
\* or admin flag.
C30_ResolveCreatesOnce ==
    /\ [][\A u \in users : u \in users']_vars
    /\ [][users' # users
            => \E n \in users' :
                  /\ users' = users \cup {n}
                  /\ ~n.is_admin
                  /\ VotersAt(n.wallet_address) = {}]_vars
    /\ [](\A p \in Workers :
            (w[p].op \in {"login", "record_vote"} /\ w[p].pc = "done" /\ w[p].user_id # 0)
                => \A u \in VotersAt(w[p].wallet) : u.id = w[p].user_id)

\* C31: a successful create_election returns the election it persisted, with
\* one candidate entry per supplied name in the order the names were given,
\* and a blockchain descriptor that is submitted with the given reference
\* when one was supplied and skipped otherwise.
C31_CreateReturnsPersisted ==
    [][\A p \in Workers :
          (CreateStep(p) /\ w'[p].res = Ok(201))
             => /\ w'[p].election \in elections'
                /\ w'[p].election \notin elections
                /\ w'[p].election.title = w'[p].title
                /\ Len(w'[p].election.candidates) = Len(w'[p].names)
                /\ \A i \in 1..Len(w'[p].names) :
                      \E c \in candidates' :
                          /\ c.id = w'[p].election.candidates[i]
                          /\ c.name = w'[p].names[i]
                /\ IF NoReference(w'[p].tx_hash)
                     THEN w'[p].blockchain.status = "skipped"
                     ELSE /\ w'[p].blockchain.status = "submitted"
                          /\ w'[p].blockchain.tx_hash = w'[p].tx_hash]_vars

\* C31 witness: an election created from the names X, Y with a reference,
\* returned with candidate X before candidate Y and status submitted.
C31_Witness ==
    \E p \in Workers :
        /\ w[p].op = "create_election" /\ w[p].res = Ok(201)
        /\ w[p].names = << "X", "Y" >>
        /\ Len(w[p].election.candidates) = 2
        /\ w[p].election.candidates[1] # w[p].election.candidates[2]
        /\ w[p].election \in elections
        /\ w[p].blockchain = [status |-> "submitted", tx_hash |-> "0xref1"]

\* the step in which worker p's record_vote runs its checks
ChecksStep(p) ==
    /\ w[p].op = "record_vote"
    /\ w[p].pc = "validate" /\ w'[p].pc # "validate"

\* what the checks of worker p's record_vote find in the store
UnknownElection(p) == \A e \in elections : e.id # w[p].election_id
NonMember(p) ==
    \E e \in elections :
        /\ e.id = w[p].election_id
        /\ \A i \in 1..Len(e.candidates) : e.candidates[i] # w[p].candidate_id
AlreadyVoted(p) ==
    \E x \in votes \cup w[p].new_votes :
        x.election_id = w[p].election_id /\ x.voter_id = w[p].user_id

\* C32: record_vote checks, in this order, that the election exists (404),
\* that the candidate belongs to it (404), that the transaction reference is
\* non-empty (400) and that the voter has no vote in it (409), and reports
\* the first check that fails.
C32_ChecksInOrder ==
    [][\A p \in Workers :
          ChecksStep(p)
             => IF UnknownElection(p)
                  THEN w'[p].res = Error(404, "Election not found")
                ELSE IF NonMember(p)
                  THEN w'[p].res = Error(404, "Candidate not found")
                ELSE IF NoReference(w[p].tx_hash)
                  THEN w'[p].res.code = 400
                ELSE IF AlreadyVoted(p)
                  THEN w'[p].res.code = 409
                ELSE w'[p].pc = "insert_vote" /\ w'[p].res = NoResult]_vars

\* C32 witness: a voter with a vote in election 1 votes there again with an
\* empty reference and is answered 400.
C32_Witness ==
    \E p \in Workers :
        /\ RvDone(p) /\ w[p].res.code = 400
        /\ NoReference(w[p].tx_hash)
        /\ w[p].had_vote # {}
        /\ \E x \in w[p].had_vote : x.candidate_id = w[p].candidate_id

\* a voter with a vote in the election who names a candidate outside it is
\* answered 404
C32_WitnessNonMember ==
    \E p \in Workers :
        /\ RvDone(p) /\ w[p].res = Error(404, "Candidate not found")
        /\ w[p].had_vote # {}

\* C33: every view returned by get_election_results has blockchain.status in
\* {skipped, cached, fresh, disabled, not_found, missing}, never the
\* placeholder "unavailable"; the status is skipped exactly when
\* include_blockchain is false, the source is "blockchain" exactly when the
\* status is cached or fresh, cached is true exactly when the status is
\* cached, and last_synced is set exactly when the status is cached or fresh.
C33_ViewMetadata ==
    \A p \in Workers :
        GrView(p)
            => /\ w[p].blockchain_meta.status
                     \in {"skipped", "cached", "fresh", "disabled", "not_found", "missing"}
               /\ w[p].blockchain_meta.status = "skipped" <=> ~w[p].include_blockchain
               /\ w[p].source = "blockchain"
                     <=> w[p].blockchain_meta.status \in {"cached", "fresh"}
               /\ w[p].source \in {"blockchain", "database"}
               /\ w[p].blockchain_meta.cached <=> w[p].blockchain_meta.status = "cached"
               /\ w[p].blockchain_meta.last_synced # NoTime
                     <=> w[p].blockchain_meta.status \in {"cached", "fresh"}

\* C33 witness: a view whose fetch succeeded and a later one served from the
\* cache entry it stored.
C33_Witness ==
    \E p, q \in Workers :
        /\ GrView(p) /\ w[p].blockchain_meta.status = "fresh"
        /\ GrView(q) /\ w[q].blockchain_meta.status = "cached"
        /\ w[q].source = "blockchain" /\ w[q].blockchain_meta.cached

\* views with each of the other statuses
C33_WitnessMissing ==
    \E p, q \in Workers :
        /\ GrView(p) /\ w[p].blockchain_meta.status = "missing"
        /\ w[p].ledger_calls.fetch = 1
        /\ GrView(q) /\ w[q].blockchain_meta.status = "not_found"
C33_WitnessDisabled ==
    \E p, q \in Workers :
        /\ GrView(p) /\ w[p].blockchain_meta.status = "disabled"
        /\ GrView(q) /\ w[q].blockchain_meta.status = "skipped"

\* the step puts a new or another entry under key k of the cache
EntryWritten(k) ==
    /\ k \in DOMAIN _chain_cache'
    /\ k \notin DOMAIN _chain_cache \/ _chain_cache'[k] # _chain_cache[k]

\* C34: every cache entry under local election id E holds a tally that a
\* successful ledger fetch returned for ledger id E - 1, for an election that
\* exists locally; a failed fetch, a local tally or the tally of another
\* election is never stored.
C34_CacheHoldsFetchedTallies ==
    /\ [](\A k \in DOMAIN _chain_cache :
             /\ _chain_cache[k].data.ok
             /\ _chain_cache[k].data \in LedgerTallies
             /\ \E e \in elections : e.id = k)
    /\ [][\A k \in ElectionIds \cup {0} :
             EntryWritten(k)
                => \E p \in Workers :
                      /\ StoreStep(p)
                      /\ w[p].election_id = k
                      /\ w[p].ledger_calls.fetch = 1
                      /\ w[p].fetch_id = k - 1
                      /\ w[p].fetched.ok
                      /\ _chain_cache'[k].data = w[p].fetched]_vars

\* C34 witness: the entry of election 2 is the tally fetched for ledger id 1,
\* while a fetch for election 1 gave nothing and left no entry.
C34_Witness ==
    \E p, q \in Workers :
        /\ GrView(p) /\ w[p].last = "store"
        /\ w[p].election_id = 2 /\ w[p].fetch_id = 1
        /\ 2 \in DOMAIN _chain_cache /\ _chain_cache[2].data = w[p].fetched
        /\ GrView(q) /\ w[q].election_id = 1
        /\ w[q].ledger_calls.fetch = 1 /\ ~w[q].fetched.ok
        /\ 1 \notin DOMAIN _chain_cache

\* the local count of candidate c in election e over a set of vote rows
CountIn(rows, e, c) ==
    Cardinality({ x \in rows : x.election_id = e /\ x.candidate_id = c })

\* C35: Vote rows are append-only: no step changes or removes a Vote row, so
\* a recorded vote stays with its candidate and transaction reference, and
\* no candidate's local count in an election ever decreases.
C35_VotesAppendOnly ==
    [][/\ \A x \in votes : x \in votes'
       /\ \A x \in votes' \ votes : \A y \in votes : y.id # x.id
       /\ \A e \in ElectionIds, c \in CandidateIds :
             CountIn(votes', e, c) >= CountIn(votes, e, c)]_vars

\* C35 witness: a vote recorded in an election is still there, unchanged,
\* after a later vote was recorded in the same election.
C35_Witness ==
    \E x \in votes, y \in votes :
        /\ x.id < y.id
        /\ x.election_id = y.election_id
        /\ x.tx_hash = "0xref1"
        /\ \E p \in Workers : RvDone(p) /\ w[p].res = Ok(200) /\ w[p].vote = y

\* worker p's record_vote leaves its session block / is inside it
RvExitStep(p) == w[p].op = "record_vote" /\ w[p].pc = "exit" /\ w'[p].pc = "done"
RvInnerStep(p) ==
    w[p].op = "record_vote" /\ w[p].pc \notin {"exit", "done"} /\ w'[p] # w[p]

\* C36: a record_vote call that returns an error creates, changes or removes
\* no Vote, Election or Candidate row; the one change it can leave is the
\* Voter row of a wallet seen for the first time, which is committed although
\* the attempt fails.
C36_ErrorLeavesOnlyVoter ==
    [][\A p \in Workers :
          /\ RvInnerStep(p) => UNCHANGED << users, elections, candidates, votes >>
          /\ (RvExitStep(p) /\ w[p].res.status = "error")
                => /\ UNCHANGED << elections, candidates, votes >>
                   /\ w[p].new_votes = {}
                   /\ users' = users \cup w[p].new_users
                   /\ \A u \in users' \ users :
                         /\ u.wallet_address = w[p].wallet
                         /\ u.id = w[p].user_id
                         /\ ~u.is_admin
                   /\ Cardinality(users' \ users) <= 1
                   /\ w'[p].res = w[p].res]_vars

\* C36 witness: the first request of the run, a vote in an election that does
\* not exist by a wallet without a Voter, is answered 404 and the wallet's
\* Voter row is committed.
C36_Witness ==
    \E p \in Workers :
        /\ RvDone(p) /\ w[p].res = Error(404, "Election not found")
        /\ w[p].wallet = <<"0", "x", "A">>
        /\ User(w[p].user_id, w[p].wallet, FALSE) \in users
        /\ calls = MaxCalls - 1
        /\ votes = {}

\* the rows worker p's session has flushed but not committed
Pending(p) == w[p].new_users \cup w[p].new_votes

\* C37: session_scope commits exactly when its block ends without an
\* exception; when the block raises, every change made in it is rolled back
\* and the exception reaches the caller; either way the session ends with
\* nothing pending.  So create_election persists the election with all its
\* candidates and association rows, or nothing.
C37_CommitOrRollback ==
    [][\A p \in Workers :
          /\ (RvExitStep(p) /\ w[p].exc = "")
                => /\ users' = users \cup w[p].new_users
                   /\ votes' = votes \cup w[p].new_votes
                   /\ w'[p].res = w[p].res /\ w'[p].res.status # "raised"
                   /\ Pending(p)' = {}
          /\ (RvExitStep(p) /\ w[p].exc # "")
                => /\ UNCHANGED << users, votes, elections, candidates >>
                   /\ w'[p].res = Raised(w[p].exc)
                   /\ Pending(p)' = {}
          /\ CreateStep(p)
                => \/ /\ w'[p].res = Ok(201)
                      /\ elections' = elections \cup {w'[p].election}
                      /\ w'[p].election \notin elections
                      /\ Len(w'[p].election.candidates) = Len(w'[p].names)
                      /\ \A i \in 1..Len(w'[p].names) :
                            \E c \in candidates' : c.id = w'[p].election.candidates[i]
                      /\ \A c \in candidates' \ candidates :
                            \E i \in 1..Len(w'[p].names) :
                                c.id = w'[p].election.candidates[i]
                   \/ /\ w'[p].res.status = "raised"
                      /\ UNCHANGED << users, votes, elections, candidates >>]_vars

\* C37 witness: an election created with a new candidate, and a
\* create_election whose flush was rejected for a candidate named twice and
\* which left nothing behind.
C37_Witness ==
    \E p, q \in Workers :
        /\ w[p].op = "create_election" /\ w[p].res = Ok(201)
        /\ w[p].election \in elections
        /\ w[q].op = "create_election" /\ w[q].res = Raised("IntegrityError")
        /\ w[q].names = << "X", "X" >>
        /\ elections = {Election(1, "Test", 1, <<1, 2>>, 0), w[p].election}
        /\ nextId.elections = 3

\* a record_vote whose block raised on the vote insert and was rolled back
C37_WitnessRollback ==
    \E p \in Workers :
        /\ RvDone(p) /\ w[p].res = Raised("IntegrityError")
        /\ w[p].exc = "IntegrityError"

\* worker p runs wait_for_database
Waiting(p) == w[p].op = "wait_for_database"
\* every attempt of the sequence failed with an operational error
AllOperational(outcomes) ==
    \A i \in 1..Len(outcomes) : outcomes[i] = "OperationalError"

\* C38: wait_for_database always terminates: it makes at most max_attempts
\* connection attempts, returns at the first attempt that succeeds without
\* making another, and raises RuntimeError exactly when max_attempts
\* consecutive attempts failed with an operational error.
C38_WaitTerminates ==
    /\ [](\A p \in Workers :
            Waiting(p)
               => /\ Len(w[p].outcomes) <= w[p].max_attempts
                  /\ \A i \in 1..(Len(w[p].outcomes) - 1) :
                        w[p].outcomes[i] = "OperationalError"
                  /\ w[p].res = Ok(0)
                        <=> (w[p].outcomes # << >>
                               /\ w[p].outcomes[Len(w[p].outcomes)] = "ok")
                  /\ w[p].res = Raised("RuntimeError")
                        <=> (Len(w[p].outcomes) = w[p].max_attempts
                               /\ AllOperational(w[p].outcomes))
                  /\ w[p].pc = "done" <=> w[p].res # NoResult)
    /\ \A p \in Workers : (Waiting(p) /\ w[p].pc = "connect") ~> (w[p].pc = "done")

\* C38 witness: one call returned at its second attempt out of three allowed,
\* another raised RuntimeError after three operational errors.
C38_Witness ==
    \E p, q \in Workers :
        /\ Waiting(p) /\ w[p].max_attempts = 3 /\ w[p].res = Ok(0)
        /\ w[p].outcomes = << "OperationalError", "ok" >>
        /\ Waiting(q) /\ w[q].max_attempts = 3 /\ w[q].res = Raised("RuntimeError")
        /\ w[q].outcomes = << "OperationalError", "OperationalError", "OperationalError" >>

====
